---- MODULE Spec2Model ----
(***************************************************************************)
(* A model of tg_prompt_script_bot.py: the per-user session state machine  *)
(* (menu_router, message_collector, cmd_improve, cmd_export), the scene    *)
(* segmentation split_into_scenes, the enricher mini_ai_enhance, the       *)
(* prompt rendering of generate_prompts_for_session and the polish call    *)
(* call_deepseek_polish.                                                   *)
(*                                                                         *)
(* A Python str is a sequence of one-character strings.  A character       *)
(* outside ASCII is written by its code point, "U+2014" for the em dash.   *)
(* The source is modelled as it is written: its regular expressions are    *)
(* raw strings holding a doubled backslash, r'(?<=[.!?])\\s+', which       *)
(* match a literal backslash followed by the letter s, and its text        *)
(* literals hold a backslash and the letter n where a newline was meant.   *)
(* Line 165 escapes the quotes of its f-string with backslashes; the       *)
(* handler is modelled as the line reads with plain quotes.                *)
(***************************************************************************)
EXTENDS Integers, Sequences, FiniteSets, TLC

VARIABLES
    SESSIONS,           \* the dict SESSIONS: user id -> session dict
    DEEPSEEK_API_KEY,   \* whether the environment sets a polish credential
    rng,                \* the state of the module-wide generator of `random`
    last,               \* the update handled last and what the handler sent back
    hist,               \* per user: what has happened to the prompt list so far
    tasks,              \* handler coroutines suspended at an await (concurrent delivery)
    batch,              \* the session before, and the updates of, the concurrent delivery
    call                \* the pure function applied last, its arguments and its result

vars == <<SESSIONS, DEEPSEEK_API_KEY, rng, last, hist, tasks, batch, call>>

\* ------------------------------------------------------------------ bounds
\* tokens a description given to split_into_scenes is made of
MaxTokens == 3
\* the largest scene count the state machine generates prompts for
MaxScenes == 3
\* improve actions applied to one prompt list
MaxImprove == 2
\* the states of the generator of random
RngMod == 2
\* updates of one user delivered together
MaxInFlight == 2

\* ------------------------------------------------------ program constants
MIN_SCENES == 1
MAX_SCENES == 200
MIN_DURATION == 1
MAX_DURATION == 3600
MIN_CHUNK == 30
TITLE_LEN == 48

\* ------------------------------------------------------------ str methods
Min(a, b) == IF a < b THEN a ELSE b
Max(a, b) == IF a > b THEN a ELSE b

\* s[a:b] with 0-based a, b already clipped to non-negative values
Slice(s, a, b) == SubSeq(s, a + 1, Min(b, Len(s)))

\* the least element of a non-empty set of integers
Least(S) == CHOOSE x \in S : \A y \in S : x <= y

\* the number of leading characters of s that are in chars
LeadingIn(s, chars) ==
    CHOOSE k \in 0..Len(s) :
        /\ k = Len(s) \/ s[k + 1] \notin chars
        /\ \A j \in 1..k : s[j] \in chars

\* the number of trailing characters of s that are in chars
TrailingIn(s, chars) ==
    CHOOSE k \in 0..Len(s) :
        /\ k = Len(s) \/ s[Len(s) - k] \notin chars
        /\ \A j \in 1..k : s[Len(s) - j + 1] \in chars

Whitespace == {" ", "\t", "\n", "\r"}

\* str.strip()
Strip(s) ==
    LET t == SubSeq(s, LeadingIn(s, Whitespace) + 1, Len(s))
    IN  SubSeq(t, 1, Len(t) - TrailingIn(t, Whitespace))

\* str.rstrip(chars)
RStrip(s, chars) == SubSeq(s, 1, Len(s) - TrailingIn(s, chars))

\* whether sub occurs in s at the 1-based position i
MatchesAt(s, sub, i) ==
    /\ i >= 1
    /\ i + Len(sub) - 1 <= Len(s)
    /\ sub = << >> \/ s[i] = sub[1]
    /\ \A k \in 2..Len(sub) : s[i + k - 1] = sub[k]

\* sub in s
Contains(s, sub) == \E i \in 1..(Len(s) - Len(sub) + 1) : MatchesAt(s, sub, i)

RECURSIVE Join(_, _)
\* sep.join(parts)
Join(parts, sep) ==
    IF parts = << >> THEN << >>
    ELSE IF Len(parts) = 1 THEN parts[1]
    ELSE parts[1] \o sep \o Join(Tail(parts), sep)

DigitChar == <<"0", "1", "2", "3", "4", "5", "6", "7", "8", "9">>

RECURSIVE IntToStr(_)
\* str(n) for n >= 0
IntToStr(n) ==
    IF n < 10 THEN <<DigitChar[n + 1]>>
    ELSE IntToStr(n \div 10) \o <<DigitChar[(n % 10) + 1]>>

\* ------------------------------------------------------- text literals
\* FILLER_CONTINUING  is the text  'A continuing visual scene.'
FILLER_CONTINUING ==
    <<"A"," ","c","o","n","t","i","n","u","i","n","g"," ","v","i","s","u","a","l"," ","s","c","e",
      "n","e",".">>

\* FILLER_BRIDGING  is the text  'A bridging visual scene.'
FILLER_BRIDGING ==
    <<"A"," ","b","r","i","d","g","i","n","g"," ","v","i","s","u","a","l"," ","s","c","e","n","e",
      ".">>

\* SCENE_PREFIX  is the text  'Scene '
SCENE_PREFIX ==
    <<"S","c","e","n","e"," ">>

\* SENT_JOIN  is the text  ' '
SENT_JOIN ==
    <<" ">>

\* CLAUSE_JOIN  is the text  ', '
CLAUSE_JOIN ==
    <<","," ">>

\* STYLE_POOL: photorealistic, cinematic lighting, anime, art-house, retro 80s, cyberpunk, fantasy, painterly, surreal, documentary, hyper-detailed, low-poly
STYLE_POOL ==
    <<
      <<"p","h","o","t","o","r","e","a","l","i","s","t","i","c">>,
      <<"c","i","n","e","m","a","t","i","c"," ","l","i","g","h","t","i","n","g">>,
      <<"a","n","i","m","e">>,
      <<"a","r","t","-","h","o","u","s","e">>,
      <<"r","e","t","r","o"," ","8","0","s">>,
      <<"c","y","b","e","r","p","u","n","k">>,
      <<"f","a","n","t","a","s","y">>,
      <<"p","a","i","n","t","e","r","l","y">>,
      <<"s","u","r","r","e","a","l">>,
      <<"d","o","c","u","m","e","n","t","a","r","y">>,
      <<"h","y","p","e","r","-","d","e","t","a","i","l","e","d">>,
      <<"l","o","w","-","p","o","l","y">>
    >>

\* MOOD_POOL: tense, dreamy, melancholic, uplifting, ominous, hopeful, mysterious, whimsical
MOOD_POOL ==
    <<
      <<"t","e","n","s","e">>,
      <<"d","r","e","a","m","y">>,
      <<"m","e","l","a","n","c","h","o","l","i","c">>,
      <<"u","p","l","i","f","t","i","n","g">>,
      <<"o","m","i","n","o","u","s">>,
      <<"h","o","p","e","f","u","l">>,
      <<"m","y","s","t","e","r","i","o","u","s">>,
      <<"w","h","i","m","s","i","c","a","l">>
    >>

\* the camera moves: close-up, wide shot, tracking shot, slow zoom, overhead, dolly in
CAMERA_POOL ==
    <<
      <<"c","l","o","s","e","-","u","p">>,
      <<"w","i","d","e"," ","s","h","o","t">>,
      <<"t","r","a","c","k","i","n","g"," ","s","h","o","t">>,
      <<"s","l","o","w"," ","z","o","o","m">>,
      <<"o","v","e","r","h","e","a","d">>,
      <<"d","o","l","l","y"," ","i","n">>
    >>

\* the palettes: neon blues and magentas, warm golden hour tones, muted earth tones, high-contrast monochrome, pastel palette
COLOR_POOL ==
    <<
      <<"n","e","o","n"," ","b","l","u","e","s"," ","a","n","d"," ","m","a","g","e","n","t","a",
        "s">>,
      <<"w","a","r","m"," ","g","o","l","d","e","n"," ","h","o","u","r"," ","t","o","n","e","s">>,
      <<"m","u","t","e","d"," ","e","a","r","t","h"," ","t","o","n","e","s">>,
      <<"h","i","g","h","-","c","o","n","t","r","a","s","t"," ","m","o","n","o","c","h","r","o","m",
        "e">>,
      <<"p","a","s","t","e","l"," ","p","a","l","e","t","t","e">>
    >>

\* the adjectives: soft, harsh, glowing, muted, vibrant, textured, grainy, pristine
ADJECTIVE_POOL ==
    <<
      <<"s","o","f","t">>,
      <<"h","a","r","s","h">>,
      <<"g","l","o","w","i","n","g">>,
      <<"m","u","t","e","d">>,
      <<"v","i","b","r","a","n","t">>,
      <<"t","e","x","t","u","r","e","d">>,
      <<"g","r","a","i","n","y">>,
      <<"p","r","i","s","t","i","n","e">>
    >>

\* the denylist, in the order of the loop: '\u0440\u0430\u0437\u0441\u0442\u0440\u0435\u043b\u044f\u0442\u044c', '\u0443\u0431\u0438\u0442\u044c', '\u0443\u0431\u0438\u0432\u0430\u044e\u0442', 'shoot', 'kill'
DENYLIST ==
    <<
      <<"U+0440","U+0430","U+0437","U+0441","U+0442","U+0440","U+0435","U+043B","U+044F","U+0442",
        "U+044C">>,
      <<"U+0443","U+0431","U+0438","U+0442","U+044C">>,
      <<"U+0443","U+0431","U+0438","U+0432","U+0430","U+044E","U+0442">>,
      <<"s","h","o","o","t">>,
      <<"k","i","l","l">>
    >>

\* REMOVED  is the text  '[removed]'
REMOVED ==
    <<"[","r","e","m","o","v","e","d","]">>

\* ELLIPSIS  is the text  '...'
ELLIPSIS ==
    <<".",".",".">>

\* BRIEF_DETAILS  is the text  '. Details: '
BRIEF_DETAILS ==
    <<"."," ","D","e","t","a","i","l","s",":"," ">>

\* BRIEF_SURFACES  is the text  ' surfaces, '
BRIEF_SURFACES ==
    <<" ","s","u","r","f","a","c","e","s",","," ">>

\* BRIEF_AMBIENCE  is the text  '. Ambience cues: distant hum, soft wind. Lighting: '
BRIEF_AMBIENCE ==
    <<"."," ","A","m","b","i","e","n","c","e"," ","c","u","e","s",":"," ","d","i","s","t","a","n",
      "t"," ","h","u","m",","," ","s","o","f","t"," ","w","i","n","d","."," ","L","i","g","h","t",
      "i","n","g",":"," ">>

\* BRIEF_WITH_A  is the text  ' with a '
BRIEF_WITH_A ==
    <<" ","w","i","t","h"," ","a"," ">>

\* BRIEF_TONE  is the text  ' tone. Suggested shot: '
BRIEF_TONE ==
    <<" ","t","o","n","e","."," ","S","u","g","g","e","s","t","e","d"," ","s","h","o","t",":"," ">>

\* BRIEF_END  is the text  '. Add subtle particle effects and depth-of-field.'
BRIEF_END ==
    <<"."," ","A","d","d"," ","s","u","b","t","l","e"," ","p","a","r","t","i","c","l","e"," ","e",
      "f","f","e","c","t","s"," ","a","n","d"," ","d","e","p","t","h","-","o","f","-","f","i","e",
      "l","d",".">>

\* TPL_STYLE  is the text  '\\nStyle: '
TPL_STYLE ==
    <<"\\","n","S","t","y","l","e",":"," ">>

\* TPL_MOOD  is the text  '\\nMood: '
TPL_MOOD ==
    <<"\\","n","M","o","o","d",":"," ">>

\* TPL_CAMERA  is the text  '\\nCamera: '
TPL_CAMERA ==
    <<"\\","n","C","a","m","e","r","a",":"," ">>

\* TPL_DURATION  is the text  '\\nDuration: '
TPL_DURATION ==
    <<"\\","n","D","u","r","a","t","i","o","n",":"," ">>

\* TPL_NEGATIVE  is the text  's\\nNegative: '
TPL_NEGATIVE ==
    <<"s","\\","n","N","e","g","a","t","i","v","e",":"," ">>

\* TPL_NOTES  is the text  '\\nNotes: auto-generated'
TPL_NOTES ==
    <<"\\","n","N","o","t","e","s",":"," ","a","u","t","o","-","g","e","n","e","r","a","t","e","d">>

\* TPL_NL  is the text  '\\n'
TPL_NL ==
    <<"\\","n">>

\* NEGATIVE  is the text  'avoid text, logos, watermarks'
NEGATIVE ==
    <<"a","v","o","i","d"," ","t","e","x","t",","," ","l","o","g","o","s",","," ","w","a","t","e",
      "r","m","a","r","k","s">>

\* IMPROVED_NOTE  is the text  '\\n--IMPROVED: add cinematic grain; try 24fps; experimental color swap'
IMPROVED_NOTE ==
    <<"\\","n","-","-","I","M","P","R","O","V","E","D",":"," ","a","d","d"," ","c","i","n","e","m",
      "a","t","i","c"," ","g","r","a","i","n",";"," ","t","r","y"," ","2","4","f","p","s",";"," ",
      "e","x","p","e","r","i","m","e","n","t","a","l"," ","c","o","l","o","r"," ","s","w","a","p">>

\* LOCAL_IMPROVE_NOTE  is the text  '\\n--LOCAL_IMPROVE: add cinematic color grade and subtle film grain.'
LOCAL_IMPROVE_NOTE ==
    <<"\\","n","-","-","L","O","C","A","L","_","I","M","P","R","O","V","E",":"," ","a","d","d"," ",
      "c","i","n","e","m","a","t","i","c"," ","c","o","l","o","r"," ","g","r","a","d","e"," ","a",
      "n","d"," ","s","u","b","t","l","e"," ","f","i","l","m"," ","g","r","a","i","n",".">>

\* DEFAULT_DESCRIPTION  is the text  'An idea'
DEFAULT_DESCRIPTION ==
    <<"A","n"," ","i","d","e","a">>

\* DEFAULT_PLATFORM  is the text  'CustomModel'
DEFAULT_PLATFORM ==
    <<"C","u","s","t","o","m","M","o","d","e","l">>

\* VAR_TOKEN  is the text  'var'
VAR_TOKEN ==
    <<"v","a","r">>

\* PICK_PREFIX  is the text  'pick|'
PICK_PREFIX ==
    <<"p","i","c","k","|">>

\* LANG_SEP  is the text  ' \u2014 '
LANG_SEP ==
    <<" ","U+2014"," ">>

\* MENU_CREATE  is the text  'menu_create'
MENU_CREATE ==
    <<"m","e","n","u","_","c","r","e","a","t","e">>

\* MENU_IMPROVE  is the text  'menu_improve'
MENU_IMPROVE ==
    <<"m","e","n","u","_","i","m","p","r","o","v","e">>

\* MENU_EXPORT  is the text  'menu_export'
MENU_EXPORT ==
    <<"m","e","n","u","_","e","x","p","o","r","t">>

\* MENU_SETTINGS  is the text  'menu_settings'
MENU_SETTINGS ==
    <<"m","e","n","u","_","s","e","t","t","i","n","g","s">>

\* MENU_BACK  is the text  'menu_back'
MENU_BACK ==
    <<"m","e","n","u","_","b","a","c","k">>

\* --------------------------------------------------------- split_into_scenes
\* The length of the match of  (?<=[.!?])\\s+  at position i of s, 0 for none:
\* a character of .!? before i, a backslash at i, then one or more letters s.
\* the number of letters s that s holds from position i on
RunOfS(s, i) == LeadingIn(SubSeq(s, i, Len(s)), {"s"})

SentenceMatch(s, i) ==
    IF /\ i >= 2
       /\ s[i - 1] \in {".", "!", "?"}
       /\ s[i] = "\\"
       /\ RunOfS(s, i + 1) >= 1
    THEN 1 + RunOfS(s, i + 1)
    ELSE 0

\* The length of the match of  ,\\s*  at position i of s, 0 for none:
\* a comma at i, a backslash, then any number of letters s.
ClauseMatch(s, i) ==
    IF /\ s[i] = ","
       /\ i + 1 <= Len(s)
       /\ s[i + 1] = "\\"
    THEN 2 + RunOfS(s, i + 2)
    ELSE 0

SepMatch(kind, s, i) ==
    IF kind = "sentence" THEN SentenceMatch(s, i) ELSE ClauseMatch(s, i)

\* the positions from i on at which the pattern matches
MatchesFrom(kind, s, i) == {j \in i..Len(s) : SepMatch(kind, s, j) > 0}

RECURSIVE Split(_, _, _)
\* re.split(pattern, s): the pieces of s between the successive matches, from start on
Split(kind, s, start) ==
    IF MatchesFrom(kind, s, start) = {} THEN <<SubSeq(s, start, Len(s))>>
    ELSE LET j == Least(MatchesFrom(kind, s, start))
             m == SepMatch(kind, s, j)
         IN  <<SubSeq(s, start, j - 1)>> \o Split(kind, s, j + m)

SplitSentences(desc) == Split("sentence", desc, 1)
SplitClauses(desc) == Split("clause", desc, 1)

\* per = max(1, len(units)//n_scenes)
PerBucket(count, n_scenes) == Max(1, count \div n_scenes)

\* the number of rounds of  while len(scenes) < n_scenes and i < len(units)
BucketCount(count, per, n_scenes) == Min(n_scenes, (count + per - 1) \div per)

\* the while loop: round k appends sep.join(units[i:i+per]).strip() for i = (k-1)*per
Buckets(units, per, sep, n_scenes) ==
    [k \in 1..BucketCount(Len(units), per, n_scenes) |->
        Strip(Join(Slice(units, (k - 1) * per, k * per), sep))]

\* a variant of Pad: the missing fragments are left empty
Pad_Blank(scenes, n_scenes, filler) ==
    scenes \o [k \in 1..(n_scenes - Len(scenes)) |-> << >>]

\* while len(scenes) < n_scenes: scenes.append(filler)
Pad(scenes, n_scenes, filler) ==
    scenes \o [k \in 1..(n_scenes - Len(scenes)) |-> filler]

\* the branch taken once len(units) >= n_scenes
BucketScenes(units, sep, n_scenes, filler) ==
    LET scenes == Buckets(units, PerBucket(Len(units), n_scenes), sep, n_scenes)
    IN  Slice(Pad(scenes, n_scenes, filler), 0, n_scenes)

\* chunk = max(30, len(desc)//n_scenes)
ChunkSize(desc, n_scenes) == Max(MIN_CHUNK, Len(desc) \div n_scenes)

\* a variant of Chunks: the chunks are taken from the end of desc backwards
Chunks_Backwards(desc, chunk) ==
    LET count == (Len(desc) + chunk - 1) \div chunk
    IN  [k \in 1..count |-> Strip(Slice(desc, (count - k) * chunk, (count - k + 1) * chunk))]

\* [desc[i:i+chunk].strip() for i in range(0, len(desc), chunk)]
Chunks(desc, chunk) ==
    [k \in 1..((Len(desc) + chunk - 1) \div chunk) |->
        Strip(Slice(desc, (k - 1) * chunk, k * chunk))]

\* a variant of FallbackScenes: the parts are returned without the cut to n_scenes
FallbackScenes_Uncut(desc, n_scenes) ==
    LET parts == Chunks(desc, ChunkSize(desc, n_scenes))
    IN  IF Len(parts) >= n_scenes THEN parts
        ELSE Pad(parts, n_scenes, FILLER_BRIDGING)

\* the fallback: fixed-width chunks, cut or padded to n_scenes
FallbackScenes(desc, n_scenes) ==
    LET parts == Chunks(desc, ChunkSize(desc, n_scenes))
    IN  IF Len(parts) >= n_scenes THEN Slice(parts, 0, n_scenes)
        ELSE Pad(parts, n_scenes, FILLER_BRIDGING)

\* [f"Scene {i+1}" for i in range(n_scenes)]
PlaceholderScenes(n_scenes) == [i \in 1..n_scenes |-> SCENE_PREFIX \o IntToStr(i)]

split_into_scenes(desc0, n_scenes) ==
    LET desc == Strip(desc0)
        sents == SplitSentences(desc)
        clauses == SplitClauses(desc)
    IN  IF desc = << >> THEN PlaceholderScenes(n_scenes)
        ELSE IF Len(sents) >= n_scenes
             THEN BucketScenes(sents, SENT_JOIN, n_scenes, FILLER_CONTINUING)
        ELSE IF Len(clauses) >= n_scenes
             THEN BucketScenes(clauses, CLAUSE_JOIN, n_scenes, FILLER_BRIDGING)
        ELSE FallbackScenes(desc, n_scenes)

\* ------------------------------------------------------- more str methods
UPPERCASE ==
    <<"A","B","C","D","E","F","G","H","I","J","K","L","M",
      "N","O","P","Q","R","S","T","U","V","W","X","Y","Z">>
LOWERCASE ==
    <<"a","b","c","d","e","f","g","h","i","j","k","l","m",
      "n","o","p","q","r","s","t","u","v","w","x","y","z">>

LowerChar(c) ==
    IF \E i \in 1..Len(UPPERCASE) : UPPERCASE[i] = c
    THEN LOWERCASE[CHOOSE i \in 1..Len(UPPERCASE) : UPPERCASE[i] = c]
    ELSE c

\* str.lower()
Lower(s) == [i \in 1..Len(s) |-> LowerChar(s[i])]

\* str.startswith(prefix)
StartsWith(s, prefix) == MatchesAt(s, prefix, 1)

\* the positions of s, from i on, at which the non-empty sub occurs
Occurrences(s, sub, i) ==
    {j \in i..(Len(s) - Len(sub) + 1) : s[j] = sub[1] /\ SubSeq(s, j, j + Len(sub) - 1) = sub}

RECURSIVE ReplaceFrom(_, _, _, _)
\* str.replace(bad, rep) on s from position i on: left to right, without overlap
ReplaceFrom(s, bad, rep, i) ==
    IF Occurrences(s, bad, i) = {} THEN SubSeq(s, i, Len(s))
    ELSE LET j == Least(Occurrences(s, bad, i))
         IN  SubSeq(s, i, j - 1) \o rep \o ReplaceFrom(s, bad, rep, j + Len(bad))

Replace(s, bad, rep) == ReplaceFrom(s, bad, rep, 1)

\* s.split(sep)[0]
BeforeFirst(s, sep) ==
    IF Occurrences(s, sep, 1) = {} THEN s
    ELSE SubSeq(s, 1, Least(Occurrences(s, sep, 1)) - 1)

\* s.split(sep, 1)[1], for s that holds sep
AfterFirst(s, sep) ==
    SubSeq(s, Least(Occurrences(s, sep, 1)) + Len(sep), Len(s))

DigitValue(c) == (CHOOSE i \in 1..10 : DigitChar[i] = c) - 1
IsDigit(c) == \E i \in 1..10 : DigitChar[i] = c

RECURSIVE DigitsValue(_, _)
\* the value of the digits of s; underscores are skipped
DigitsValue(s, acc) ==
    IF s = << >> THEN acc
    ELSE IF Head(s) = "_" THEN DigitsValue(Tail(s), acc)
    ELSE DigitsValue(Tail(s), 10 * acc + DigitValue(Head(s)))

\* whether int() takes the unsigned text s: digits, single underscores between them
IsIntBody(s) ==
    /\ s # << >>
    /\ \A i \in 1..Len(s) : IsDigit(s[i]) \/ s[i] = "_"
    /\ IsDigit(s[1]) /\ IsDigit(s[Len(s)])
    /\ \A i \in 1..(Len(s) - 1) : ~(s[i] = "_" /\ s[i + 1] = "_")

\* int(text): ok is FALSE where int raises ValueError
ParseInt(text) ==
    LET t == Strip(text)
        signed == t # << >> /\ t[1] \in {"+", "-"}
        body == IF signed THEN Tail(t) ELSE t
    IN  IF IsIntBody(body)
        THEN [ok |-> TRUE,
              val |-> IF signed /\ t[1] = "-" THEN 0 - DigitsValue(body, 0)
                      ELSE DigitsValue(body, 0)]
        ELSE [ok |-> FALSE, val |-> 0]

\* --------------------------------------------------------------- dicts
\* d[k] = v
Put(d, k, v) == [x \in (DOMAIN d) \cup {k} |-> IF x = k THEN v ELSE d[x]]
\* d.get(k, default)
Get(d, k, default) == IF k \in DOMAIN d THEN d[k] ELSE default

\* Python's None where a number is expected
None == -1

\* ------------------------------------------------------ call_deepseek_polish
\* A response of the polish service: transport "error" when requests.post
\* raises; body of kind "invalid" when resp.json() raises, "dict", "str" or
\* "other"; a dict's items map a key to [type |-> "str", s |-> text] or to
\* [type |-> "other"].
RECOGNIZED_KEYS == <<"result", "output", "polished", "text">>
HTTP_OK == 200

\* isinstance(v, str) and v.strip()
IsNonBlankStr(v) == v.type = "str" /\ Strip(v.s) # << >>

\* the places in RECOGNIZED_KEYS of the keys of data that hold a non-blank string
KeyHits(items) ==
    {k \in 1..Len(RECOGNIZED_KEYS) :
        /\ RECOGNIZED_KEYS[k] \in DOMAIN items
        /\ IsNonBlankStr(items[RECOGNIZED_KEYS[k]])}

\* a variant of StatusOk: any status passes
StatusOk_Any(status) == TRUE

\* if resp.status_code == 200
StatusOk(status) == status = HTTP_OK

\* the body of the try block: exc where a statement raises, ret where one returns,
\* neither where control falls through to the last line
PolishTry(resp) ==
    IF resp.transport # "ok" THEN [exc |-> TRUE, ret |-> FALSE]
    ELSE IF ~StatusOk(resp.status) THEN [exc |-> FALSE, ret |-> FALSE]
    ELSE IF resp.body.kind = "invalid" THEN [exc |-> TRUE, ret |-> FALSE]
    ELSE IF resp.body.kind = "dict" /\ KeyHits(resp.body.items) # {}
         THEN [exc |-> FALSE, ret |-> TRUE,
               value |-> Strip(resp.body.items[RECOGNIZED_KEYS[Least(KeyHits(resp.body.items))]].s)]
    ELSE IF resp.body.kind = "str"
         THEN [exc |-> FALSE, ret |-> TRUE, value |-> resp.body.s]
    ELSE [exc |-> FALSE, ret |-> FALSE]

\* except Exception: every exception of the try block is caught and logged
Caught(exc) == TRUE

\* the outcome of call_deepseek_polish: raised, or the value returned
call_deepseek_polish(prompt_text, key, resp) ==
    IF ~key THEN [raised |-> FALSE, value |-> prompt_text]
    ELSE LET t == PolishTry(resp)
         IN  IF t.exc /\ ~Caught(t.exc) THEN [raised |-> TRUE, value |-> << >>]
             ELSE IF t.ret THEN [raised |-> FALSE, value |-> t.value]
             ELSE [raised |-> FALSE, value |-> prompt_text]

\* ------------------------------------------------------------ random
\* random.choice and random.randint draw from one module-wide generator.  The
\* generator is a counter modulo RngMod started at an arbitrary seed; a draw
\* reads RngOut of its state and steps it.
RngOut(r) == 5 * r
\* the state after k draws
AfterDraws(r, k) == (r + k) % RngMod
\* random.choice(pool), drawn in state r
Choice(pool, r) == pool[(RngOut(r) % Len(pool)) + 1]
\* random.randint(lo, hi), drawn in state r
RandInt(lo, hi, r) == lo + (RngOut(r) % (hi - lo + 1))

VAR_MIN_DURATION == 3
VAR_MAX_DURATION == 15

\* ----------------------------------------------------------- mini_ai_enhance
TITLE_TRAILING == {" ", ".", ",", "!", "?", ":", ";"}

\* title = scene_short.strip()[:48].rstrip(" .,!?:;") + ("..." if longer than 48)
Title(scene_short) ==
    LET t == Strip(scene_short)
    IN  RStrip(Slice(t, 0, TITLE_LEN), TITLE_TRAILING)
            \o (IF Len(t) > TITLE_LEN THEN ELLIPSIS ELSE << >>)

RECURSIVE Sanitize(_, _)
\* for bad in [...]: expanded = expanded.replace(bad, "[removed]")
Sanitize(expanded, bads) ==
    IF bads = << >> THEN expanded
    ELSE Sanitize(Replace(expanded, Head(bads), REMOVED), Tail(bads))

\* mini_ai_enhance with the generator in state r; it draws five times
mini_ai_enhance(scene_short, r) ==
    LET style == Choice(STYLE_POOL, r)
        mood == Choice(MOOD_POOL, AfterDraws(r, 1))
        camera == Choice(CAMERA_POOL, AfterDraws(r, 2))
        color == Choice(COLOR_POOL, AfterDraws(r, 3))
        adjective == Choice(ADJECTIVE_POOL, AfterDraws(r, 4))
        expanded == scene_short \o BRIEF_DETAILS \o adjective \o BRIEF_SURFACES \o color
                        \o BRIEF_AMBIENCE \o style \o BRIEF_WITH_A \o mood
                        \o BRIEF_TONE \o camera \o BRIEF_END
    IN  [title |-> Title(scene_short), brief |-> Sanitize(expanded, DENYLIST),
         style |-> style, mood |-> mood, camera |-> camera, color |-> color]

ENHANCE_DRAWS == 5

\* ----------------------------------------------- generate_prompts_for_session
\* template.format(...)
Render(meta, duration) ==
    meta.title \o TPL_NL \o meta.brief \o TPL_STYLE \o meta.style \o TPL_MOOD \o meta.mood
        \o TPL_CAMERA \o meta.camera \o TPL_DURATION \o IntToStr(duration)
        \o TPL_NEGATIVE \o NEGATIVE \o TPL_NOTES

DEFAULT_N_SCENES == 4
DEFAULT_DURATION == 6

\* the number of draws one scene takes
SceneDraws(dur_mode) == IF dur_mode = "fixed" THEN ENHANCE_DRAWS ELSE ENHANCE_DRAWS + 1

\* a variant of ScenePrompt: a fixed duration is the default one
ScenePrompt_DefaultDuration(i, s, dur_mode, dur_val, platform, key, resp, r) ==
    LET meta == mini_ai_enhance(s, r)
        duration == IF dur_mode = "fixed" THEN DEFAULT_DURATION
                    ELSE RandInt(VAR_MIN_DURATION, VAR_MAX_DURATION, AfterDraws(r, ENHANCE_DRAWS))
        prompt_text == Render(meta, duration)
        polished == IF key THEN call_deepseek_polish(prompt_text, key, resp).value
                    ELSE prompt_text
    IN  [index |-> i, duration |-> duration, platform |-> platform,
         prompt |-> polished, meta |-> meta]

\* the prompt of scene i (1-based), the generator in state r before it
ScenePrompt(i, s, dur_mode, dur_val, platform, key, resp, r) ==
    LET meta == mini_ai_enhance(s, r)
        duration == IF dur_mode = "fixed" THEN dur_val
                    ELSE RandInt(VAR_MIN_DURATION, VAR_MAX_DURATION, AfterDraws(r, ENHANCE_DRAWS))
        prompt_text == Render(meta, duration)
        polished == IF key THEN call_deepseek_polish(prompt_text, key, resp).value
                    ELSE prompt_text
    IN  [index |-> i, duration |-> duration, platform |-> platform,
         prompt |-> polished, meta |-> meta]

\* generate_prompts_for_session(user_id): resps[i] is what the polish service
\* answers for scene i, r the state of the generator at the call
generate_prompts_for_session(S, user_id, key, resps, r) ==
    LET session == S[user_id]
        desc == Get(session, "description", DEFAULT_DESCRIPTION)
        n == Get(session, "n_scenes", DEFAULT_N_SCENES)
        dur_mode == Get(session, "duration_mode", "fixed")
        dur_val == Get(session, "duration_value", DEFAULT_DURATION)
        platform == Get(session, "platform", DEFAULT_PLATFORM)
        scenes_short == split_into_scenes(desc, n)
    IN  [i \in 1..Len(scenes_short) |->
            ScenePrompt(i, scenes_short[i], dur_mode, dur_val, platform, key, resps[i],
                        AfterDraws(r, (i - 1) * SceneDraws(dur_mode)))]

\* ------------------------------------------------------------- the handlers
\* A handler is an operator from the dict SESSIONS (S) and the update to the
\* dict it leaves, the texts it sends (replies), the archive it sends (doc)
\* and whether it generated prompts.  A handler that mutates the session on
\* both sides of an await is given by its parts, the part up to the await
\* naming the part that follows it (next).

NewSession == [state |-> "idle", last_prompts |-> << >>]

\* ensure_session(user_id)
ensure_session(S, user_id) ==
    IF user_id \in DOMAIN S THEN S ELSE Put(S, user_id, NewSession)

Done(S, replies) ==
    [S |-> S, replies |-> replies, doc |-> "none", generated |-> FALSE, next |-> "done"]

\* any_message
any_message(S, user_id) ==
    Done(ensure_session(S, user_id), <<"Main Menu - choose action">>)

\* not session.get("last_prompts")
NoPrompts(session) == Get(session, "last_prompts", << >>) = << >>

\* a variant of MenuImproved: the note is added once only
MenuImproved_Once(prompts) ==
    [i \in 1..Len(prompts) |->
        IF Get(prompts[i].meta, "improved", FALSE) THEN prompts[i]
        ELSE Put(Put(prompts[i], "prompt", prompts[i].prompt \o IMPROVED_NOTE),
                 "meta", Put(prompts[i].meta, "improved", TRUE))]

\* p["prompt"] += note; p["meta"]["improved"] = True, for every prompt
MenuImproved(prompts) ==
    [i \in 1..Len(prompts) |->
        Put(Put(prompts[i], "prompt", prompts[i].prompt \o IMPROVED_NOTE),
            "meta", Put(prompts[i].meta, "improved", TRUE))]

\* menu_router, data == "menu_improve"
menu_improve(S, user_id) ==
    IF NoPrompts(S[user_id])
    THEN Done(S, <<"No prompts generated yet. Create first.">>)
    ELSE Done(Put(S, user_id,
                  Put(S[user_id], "last_prompts", MenuImproved(S[user_id].last_prompts))),
              <<"Prompts improved locally.">>)

\* menu_router, data == "menu_export"
menu_export(S, user_id) ==
    IF NoPrompts(S[user_id])
    THEN Done(S, <<"No prompts to export. Create first.">>)
    ELSE [S |-> S, replies |-> <<"Exporting prompts.zip...">>, doc |-> "prompts.zip",
          generated |-> FALSE, next |-> "done"]

\* the language stored for a pick: pick.split(" - ")[0], the dash an em dash
LangCode(pick) == BeforeFirst(pick, LANG_SEP)

\* a variant of menu_pick: a pick is taken as a platform in every state but
\* choosing_language
menu_pick_AnyState(S, user_id, data) ==
    LET pick == AfterFirst(data, <<"|">>)
        user_session == S[user_id]
        state == Get(user_session, "state", "None")
    IN  IF state = "choosing_language"
        THEN Done(Put(S, user_id,
                      Put(Put(user_session, "language", LangCode(pick)),
                          "state", "choosing_platform")),
                  <<"Language set. Now choose platform:">>)
        ELSE Done(Put(S, user_id,
                      Put(Put(user_session, "platform", pick),
                          "state", "awaiting_description")),
                  <<"Platform set. Send a short description of your idea:">>)

\* menu_router, data.startswith("pick|")
menu_pick(S, user_id, data) ==
    LET pick == AfterFirst(data, <<"|">>)
        user_session == S[user_id]
        state == Get(user_session, "state", "None")
    IN  IF state = "choosing_language"
        THEN Done(Put(S, user_id,
                      Put(Put(user_session, "language", LangCode(pick)),
                          "state", "choosing_platform")),
                  <<"Language set. Now choose platform:">>)
        ELSE IF state = "choosing_platform"
        THEN Done(Put(S, user_id,
                      Put(Put(user_session, "platform", pick),
                          "state", "awaiting_description")),
                  <<"Platform set. Send a short description of your idea:">>)
        ELSE Done(S, <<"Unhandled menu action. Back to main menu.">>)

\* a variant of menu_create_finish: the state is set in every session
menu_create_finish_All(S, user_id) ==
    Done([v \in DOMAIN S |-> Put(S[v], "state", "choosing_language")], << >>)

\* SESSIONS[user_id]["state"] = "choosing_language", after the await of menu_create
menu_create_finish(S, user_id) ==
    Done(Put(S, user_id, Put(S[user_id], "state", "choosing_language")), << >>)

\* menu_router from  await query.answer()  to its next await that a mutation follows
menu_route(S0, user_id, data) ==
    LET S == ensure_session(S0, user_id)
    IN  IF data = MENU_CREATE
        THEN [S |-> S, replies |-> <<"Choose language">>, doc |-> "none",
              generated |-> FALSE, next |-> "menu_create_finish"]
        ELSE IF data = MENU_IMPROVE THEN menu_improve(S, user_id)
        ELSE IF data = MENU_EXPORT THEN menu_export(S, user_id)
        ELSE IF data = MENU_SETTINGS THEN Done(S, <<"Settings:">>)
        ELSE IF data = MENU_BACK THEN Done(S, <<"Main Menu:">>)
        ELSE IF StartsWith(data, PICK_PREFIX) THEN menu_pick(S, user_id, data)
        ELSE Done(S, <<"Unhandled menu action. Back to main menu.">>)

\* menu_router, run to its end
menu_router(S, user_id, data) ==
    LET a == menu_route(S, user_id, data)
    IN  IF a.next = "menu_create_finish"
        THEN [menu_create_finish(a.S, user_id) EXCEPT !.replies = a.replies]
        ELSE a

\* a variant of ScenesInRange: the lower limit is off by one
ScenesInRange_FromZero(n) == n >= MIN_SCENES - 1 /\ n <= MAX_SCENES

\* if n < 1 or n > 200: raise ValueError()
ScenesInRange(n) == n >= MIN_SCENES /\ n <= MAX_SCENES
\* a variant of DurationInRange: the upper limit is off by one
DurationInRange_ToNext(d) == d >= MIN_DURATION /\ d <= MAX_DURATION + 1

\* if d < 1 or d > 3600: raise ValueError()
DurationInRange(d) == d >= MIN_DURATION /\ d <= MAX_DURATION

\* a variant of collect_scenes: a text that is no valid count is passed over
\* and the duration is asked for
collect_scenes_Unvalidated(S, user_id, text) ==
    LET p == ParseInt(text)
    IN  IF p.ok /\ ScenesInRange(p.val)
        THEN Done(Put(S, user_id,
                      Put(Put(S[user_id], "n_scenes", p.val), "state", "awaiting_duration")),
                  <<"Duration per scene in seconds (number) or 'var':">>)
        ELSE Done(Put(S, user_id, Put(S[user_id], "state", "awaiting_duration")),
                  <<"Duration per scene in seconds (number) or 'var':">>)

\* message_collector, state == "awaiting_scenes"
collect_scenes(S, user_id, text) ==
    LET p == ParseInt(text)
    IN  IF p.ok /\ ScenesInRange(p.val)
        THEN Done(Put(S, user_id,
                      Put(Put(S[user_id], "n_scenes", p.val), "state", "awaiting_duration")),
                  <<"Duration per scene in seconds (number) or 'var':">>)
        ELSE Done(S, <<"Please send a valid number between 1 and 200.">>)

\* text.lower() == "var"
IsVar(text) == Lower(text) = VAR_TOKEN

\* message_collector, state == "awaiting_duration", up to  await reply_text("Generating...")
collect_duration(S, user_id, text) ==
    LET p == ParseInt(text)
        stored(mode, value) ==
            [S |-> Put(S, user_id,
                       Put(Put(S[user_id], "duration_mode", mode), "duration_value", value)),
             replies |-> <<"Generating prompts...">>, doc |-> "none",
             generated |-> FALSE, next |-> "collect_generate"]
    IN  IF IsVar(text) THEN stored("var", None)
        ELSE IF p.ok /\ DurationInRange(p.val) THEN stored("fixed", p.val)
        ELSE Done(S, <<"Send integer seconds (1-3600) or 'var'.">>)

\* a variant of collect_generate: the new prompts are added to the list
collect_generate_Extend(S, user_id, key, resps, r) ==
    LET prompts == generate_prompts_for_session(S, user_id, key, resps, r)
    IN  [S |-> Put(S, user_id,
                   Put(Put(S[user_id], "last_prompts", S[user_id].last_prompts \o prompts),
                       "state", "idle")),
         replies |-> <<"Generated prompts:", "Use the menu to Improve or Export.">>,
         doc |-> "none", generated |-> TRUE, next |-> "done"]

\* message_collector from  prompts = generate_prompts_for_session(user_id)  on
collect_generate(S, user_id, key, resps, r) ==
    LET prompts == generate_prompts_for_session(S, user_id, key, resps, r)
    IN  [S |-> Put(S, user_id,
                   Put(Put(S[user_id], "last_prompts", prompts), "state", "idle")),
         replies |-> <<"Generated prompts:", "Use the menu to Improve or Export.">>,
         doc |-> "none", generated |-> TRUE, next |-> "done"]

\* message_collector up to its first await that a mutation follows
collect_first(S0, user_id, text0) ==
    LET S == ensure_session(S0, user_id)
        state == Get(S[user_id], "state", "idle")
        text == Strip(text0)
    IN  IF state = "awaiting_description"
        THEN Done(Put(S, user_id,
                      Put(Put(S[user_id], "description", text), "state", "awaiting_scenes")),
                  <<"Got it. How many scenes?">>)
        ELSE IF state = "awaiting_scenes" THEN collect_scenes(S, user_id, text)
        ELSE IF state = "awaiting_duration" THEN collect_duration(S, user_id, text)
        ELSE Done(S, <<"Main Menu:">>)

\* message_collector, run to its end
message_collector(S, user_id, text0, key, resps, r) ==
    LET a == collect_first(S, user_id, text0)
    IN  IF a.next = "collect_generate"
        THEN LET b == collect_generate(a.S, user_id, key, resps, r)
             IN  [b EXCEPT !.replies = a.replies \o b.replies]
        ELSE a

\* p["prompt"] += note, for every prompt
LocallyImproved(prompts) ==
    [i \in 1..Len(prompts) |->
        Put(prompts[i], "prompt", prompts[i].prompt \o LOCAL_IMPROVE_NOTE)]

\* p["prompt_remote"] = call_deepseek_polish(p["prompt"]), for every prompt
RemotelyPolished(prompts, key, resps) ==
    [i \in 1..Len(prompts) |->
        LET out == call_deepseek_polish(prompts[i].prompt, key, resps[i])
        IN  IF out.raised THEN prompts[i]
            ELSE Put(prompts[i], "prompt_remote", out.value)]

\* cmd_improve
cmd_improve(S0, user_id, key, resps) ==
    LET S == ensure_session(S0, user_id)
        session == S[user_id]
    IN  IF NoPrompts(session) THEN Done(S, <<"No prompts to improve. Create first.">>)
        ELSE IF ~key
        THEN Done(Put(S, user_id,
                      Put(session, "last_prompts", LocallyImproved(session.last_prompts))),
                  <<"No remote API key configured. Improved locally instead.",
                    "Local improvements applied.">>)
        ELSE Done(Put(S, user_id,
                      Put(session, "last_prompts",
                          RemotelyPolished(session.last_prompts, key, resps))),
                  <<"Polishing prompts with Deepseek...", "Remote polishing finished.">>)

\* a variant of cmd_export: the archive is sent whatever the prompt list holds
cmd_export_Unchecked(S0, user_id) ==
    [S |-> ensure_session(S0, user_id), replies |-> << >>, doc |-> "prompts_export.zip",
     generated |-> FALSE, next |-> "done"]

\* cmd_export
cmd_export(S0, user_id) ==
    LET S == ensure_session(S0, user_id)
    IN  IF NoPrompts(S[user_id]) THEN Done(S, <<"No prompts to export.">>)
        ELSE [S |-> S, replies |-> << >>, doc |-> "prompts_export.zip",
              generated |-> FALSE, next |-> "done"]

\* the tokens the descriptions given to split_into_scenes are made of
\* TokSentence  is the text  'A dog runs.'
TokSentence ==
    <<"A"," ","d","o","g"," ","r","u","n","s",".">>

\* TokSpace  is the text  ' '
TokSpace ==
    <<" ">>

\* TokBackslashS  is the text  '\\s'
TokBackslashS ==
    <<"\\","s">>

\* TokSentSep  is the text  'A cat hides!\\s'
TokSentSep ==
    <<"A"," ","c","a","t"," ","h","i","d","e","s","!","\\","s">>

\* TokClauseSep  is the text  'red sky,\\ss'
TokClauseSep ==
    <<"r","e","d"," ","s","k","y",",","\\","s","s">>

\* TokLong  is the text  'the camera drifts over a quiet city'
TokLong ==
    <<"t","h","e"," ","c","a","m","e","r","a"," ","d","r","i","f","t","s"," ","o","v","e","r"," ",
      "a"," ","q","u","i","e","t"," ","c","i","t","y">>

\* the texts and callback data of the updates
\* DESC_DOG  is the text  'A dog runs. A cat hides. The sun sets.'
DESC_DOG ==
    <<"A"," ","d","o","g"," ","r","u","n","s","."," ","A"," ","c","a","t"," ","h","i","d","e","s",
      "."," ","T","h","e"," ","s","u","n"," ","s","e","t","s",".">>

\* TXT_ABC  is the text  'abc'
TXT_ABC ==
    <<"a","b","c">>

\* TXT_0  is the text  '0'
TXT_0 ==
    <<"0">>

\* TXT_1  is the text  '1'
TXT_1 ==
    <<"1">>

\* TXT_3  is the text  '3'
TXT_3 ==
    <<"3">>

\* TXT_200  is the text  '200'
TXT_200 ==
    <<"2","0","0">>

\* TXT_201  is the text  '201'
TXT_201 ==
    <<"2","0","1">>

\* TXT_VAR  is the text  'var'
TXT_VAR ==
    <<"v","a","r">>

\* TXT_VAR_UPPER  is the text  ' VAR'
TXT_VAR_UPPER ==
    <<" ","V","A","R">>

\* TXT_5  is the text  '5'
TXT_5 ==
    <<"5">>

\* TXT_3600  is the text  '3600'
TXT_3600 ==
    <<"3","6","0","0">>

\* TXT_3601  is the text  '3601'
TXT_3601 ==
    <<"3","6","0","1">>

\* TXT_5S  is the text  '5s'
TXT_5S ==
    <<"5","s">>

\* PICK_EN  is the text  'pick|en \u2014 English'
PICK_EN ==
    <<"p","i","c","k","|","e","n"," ","U+2014"," ","E","n","g","l","i","s","h">>

\* PICK_SORA  is the text  'pick|Sora'
PICK_SORA ==
    <<"p","i","c","k","|","S","o","r","a">>

\* SETTING_DEEPSEEK  is the text  'setting|deepseek'
SETTING_DEEPSEEK ==
    <<"s","e","t","t","i","n","g","|","d","e","e","p","s","e","e","k">>

\* POLISHED_TEXT  is the text  ' A polished prompt. '
POLISHED_TEXT ==
    <<" ","A"," ","p","o","l","i","s","h","e","d"," ","p","r","o","m","p","t","."," ">>

\* BLANK_TEXT  is the text  '  '
BLANK_TEXT ==
    <<" "," ">>

\* ------------------------- the variables a specification makes no use of
EmptyMap == [u \in {} |-> 0]
NoUpdate == [handler |-> "none"]
NoCall == [fn |-> "none"]
NoBatch == [open |-> FALSE]

\* ----------------------------------------- checking split_into_scenes alone
Tokens ==
    {TokSentence, TokSpace, TokBackslashS, TokSentSep, TokClauseSep, TokLong}

Concat(seqs) == Join(seqs, << >>)

\* the descriptions: up to MaxTokens tokens, concatenated
Descriptions ==
    {Concat(ts) : ts \in UNION {[1..k -> Tokens] : k \in 0..MaxTokens}}

\* the scene counts: the small ones and the largest the flow accepts
SplitCounts == (MIN_SCENES..(MaxTokens + 1)) \cup {MAX_SCENES}

InitSplit ==
    /\ SESSIONS = EmptyMap
    /\ DEEPSEEK_API_KEY = FALSE
    /\ rng = 0
    /\ last = NoUpdate
    /\ hist = EmptyMap
    /\ tasks = {}
    /\ batch = NoBatch
    /\ call = NoCall

CallSplit ==
    /\ call = NoCall
    /\ \E desc \in Descriptions, n \in SplitCounts :
         call' = [fn |-> "split_into_scenes", desc |-> desc, n |-> n,
                  result |-> split_into_scenes(desc, n)]
    /\ UNCHANGED <<SESSIONS, DEEPSEEK_API_KEY, rng, last, hist, tasks, batch>>

NextSplit == CallSplit

SpecSplit == InitSplit /\ [][NextSplit]_vars

\* which branch split_into_scenes takes
SplitBranch(desc0, n_scenes) ==
    LET desc == Strip(desc0)
    IN  IF desc = << >> THEN "placeholder"
        ELSE IF Len(SplitSentences(desc)) >= n_scenes THEN "sentences"
        ELSE IF Len(SplitClauses(desc)) >= n_scenes THEN "clauses"
        ELSE "chunks"


\* C1: for every description, the blank one included, and every scene count
\* in [1,200], split_into_scenes returns exactly n_scenes fragments, whichever
\* branch it takes.
C1_ExactlyNFragments ==
    call.fn = "split_into_scenes" => Len(call.result) = call.n

\* reached: the chunk fallback cut more parts than asked for down to n_scenes
C1_Witness_TruncatedChunks ==
    /\ call.fn = "split_into_scenes"
    /\ call.n >= 2
    /\ SplitBranch(call.desc, call.n) = "chunks"
    /\ Len(Chunks(Strip(call.desc), ChunkSize(Strip(call.desc), call.n))) > call.n
    /\ Len(call.result) = call.n

\* ------------------------------------------------------------ the updates
Users == {1}
TwoUsers == {1, 2}

StateOf(S, u) == IF u \in DOMAIN S THEN Get(S[u], "state", "idle") ELSE "idle"

\* The updates a user sends depend on what the bot last asked for: a button of
\* the menus at any time, the button of a language or of a platform when that
\* keyboard is shown (and a button of an old platform keyboard at any time),
\* and a text that answers the question asked, well-formed or not.
MenuButtons ==
    {MENU_CREATE, MENU_IMPROVE, MENU_EXPORT, MENU_SETTINGS, MENU_BACK, SETTING_DEEPSEEK}

DataIn(state) ==
    MenuButtons \cup (IF state = "choosing_language" THEN {PICK_EN} ELSE {PICK_SORA})

DescTexts == {DESC_DOG}
CountTexts == {TXT_ABC, TXT_0, TXT_201, TXT_1, TXT_3, TXT_200}
DurationTexts == {TXT_VAR, TXT_VAR_UPPER, TXT_5, TXT_3600, TXT_0, TXT_3601, TXT_5S}
OtherTexts == {TXT_ABC}

TextsIn(state) ==
    IF state = "awaiting_description" THEN DescTexts
    ELSE IF state = "awaiting_scenes" THEN CountTexts
    ELSE IF state = "awaiting_duration" THEN DurationTexts
    ELSE OtherTexts

\* the answers of the machine of every handler: to each question a well-formed
\* and an ill-formed one, the scene counts one and three, a fixed and a
\* variable duration
FlowTextsIn(state) ==
    IF state = "awaiting_description" THEN DescTexts
    ELSE IF state = "awaiting_scenes" THEN {TXT_ABC, TXT_1, TXT_3}
    ELSE IF state = "awaiting_duration" THEN {TXT_VAR, TXT_5, TXT_0}
    ELSE OtherTexts

\* the same for a user who sends one well-formed and one
\* ill-formed answer to each question
FewButtons == {MENU_CREATE, MENU_IMPROVE, MENU_EXPORT}

FewDataIn(state) ==
    FewButtons \cup (IF state = "choosing_language" THEN {PICK_EN} ELSE {PICK_SORA})

FewTextsIn(state) ==
    IF state = "awaiting_description" THEN {DESC_DOG}
    ELSE IF state = "awaiting_scenes" THEN {TXT_ABC, TXT_1}
    ELSE IF state = "awaiting_duration" THEN {TXT_0, TXT_5}
    ELSE OtherTexts

\* what the polish service answers within the flow
NoResponse == [transport |-> "error"]
PolishedResponse ==
    [transport |-> "ok", status |-> HTTP_OK,
     body |-> [kind |-> "dict", items |-> [result |-> [type |-> "str", s |-> POLISHED_TEXT]]]]

\* the answers to the n calls of one loop: the service answers them all or fails
\* them all; no call is made without a credential
Answers(key, n) ==
    IF key THEN {[i \in 1..n |-> resp] : resp \in {PolishedResponse, NoResponse}}
    ELSE {[i \in 1..n |-> NoResponse]}

PromptsOf(S, u) == IF u \in DOMAIN S THEN Get(S[u], "last_prompts", << >>) ELSE << >>

\* ------------------------------------------------- the sequential machine
\* improves: the improve actions applied to the prompt list; replaced: whether a
\* generation has taken the place of an earlier prompt list
NoHist == [improves |-> 0, replaced |-> FALSE]

Init ==
    /\ SESSIONS = EmptyMap
    /\ DEEPSEEK_API_KEY \in BOOLEAN
    /\ rng \in 0..(RngMod - 1)
    /\ last = NoUpdate
    /\ hist = [u \in TwoUsers |-> NoHist]
    /\ tasks = {}
    /\ batch = NoBatch
    /\ call = NoCall

\* the handler has run: its dict is SESSIONS, its messages are recorded
Handled(handler, u, result) ==
    \E out \in {result} :
        /\ SESSIONS' = out.S
        /\ last' = [handler |-> handler, user |-> u, replies |-> out.replies, doc |-> out.doc]

Bump(u, field) == hist' = [hist EXCEPT ![u][field] = @ + 1]

MenuRouter(u, data) ==
    /\ Handled("menu_router", u, menu_router(SESSIONS, u, data))
    /\ IF data = MENU_IMPROVE /\ PromptsOf(SESSIONS, u) # << >>
       THEN hist[u].improves < MaxImprove /\ Bump(u, "improves")
       ELSE UNCHANGED hist
    /\ UNCHANGED <<DEEPSEEK_API_KEY, rng, tasks, batch, call>>

MessageCollector(u, text) ==
    LET a == collect_first(SESSIONS, u, text)
        n == Get(a.S[u], "n_scenes", DEFAULT_N_SCENES)
        mode == Get(a.S[u], "duration_mode", "fixed")
    IN  IF a.next = "collect_generate"
        THEN /\ n <= MaxScenes
             /\ \E resps \in Answers(DEEPSEEK_API_KEY, n) :
                  Handled("message_collector", u,
                          message_collector(SESSIONS, u, text, DEEPSEEK_API_KEY, resps, rng))
             /\ rng' = AfterDraws(rng, n * SceneDraws(mode))
             /\ hist' = [hist EXCEPT ![u] = [improves |-> 0,
                                              replaced |-> @.replaced \/ PromptsOf(SESSIONS, u) # << >>]]
             /\ UNCHANGED <<DEEPSEEK_API_KEY, tasks, batch, call>>
        ELSE /\ Handled("message_collector", u, a)
             /\ UNCHANGED <<DEEPSEEK_API_KEY, rng, hist, tasks, batch, call>>

CmdImprove(u) ==
    /\ PromptsOf(SESSIONS, u) # << >> => hist[u].improves < MaxImprove
    /\ \E resps \in Answers(DEEPSEEK_API_KEY, Len(PromptsOf(SESSIONS, u))) :
         Handled("cmd_improve", u, cmd_improve(SESSIONS, u, DEEPSEEK_API_KEY, resps))
    /\ IF PromptsOf(SESSIONS, u) # << >> THEN Bump(u, "improves") ELSE UNCHANGED hist
    /\ UNCHANGED <<DEEPSEEK_API_KEY, rng, tasks, batch, call>>

CmdExport(u) ==
    /\ Handled("cmd_export", u, cmd_export(SESSIONS, u))
    /\ UNCHANGED <<DEEPSEEK_API_KEY, rng, hist, tasks, batch, call>>

AnyMessage(u, text) ==
    /\ Handled("any_message", u, any_message(SESSIONS, u))
    /\ UNCHANGED <<DEEPSEEK_API_KEY, rng, hist, tasks, batch, call>>

\* The machine of one user without a polish credential: every handler, every
\* button, and the well-formed and ill-formed answers to every question.
InitFlow == Init /\ DEEPSEEK_API_KEY = FALSE

Next ==
    \E u \in Users :
        \/ \E data \in DataIn(StateOf(SESSIONS, u)) : MenuRouter(u, data)
        \/ \E text \in FlowTextsIn(StateOf(SESSIONS, u)) : MessageCollector(u, text)
        \/ CmdImprove(u)
        \/ CmdExport(u)
        \/ \E text \in OtherTexts : AnyMessage(u, text)

Spec == InitFlow /\ [][Next]_vars

\* The machine of one user with and without a polish credential, the user
\* sending one well-formed and one ill-formed answer to each question.
NextImprove ==
    \E u \in Users :
        \/ \E data \in FewDataIn(StateOf(SESSIONS, u)) : MenuRouter(u, data)
        \/ \E text \in FewTextsIn(StateOf(SESSIONS, u)) : MessageCollector(u, text)
        \/ CmdImprove(u)
        \/ CmdExport(u)

SpecImprove == Init /\ [][NextImprove]_vars

\* The machine of two users without a polish credential, their updates
\* interleaved: each user starts flows, answers every question and improves a
\* prompt list once.
UsersDataIn(state) ==
    {MENU_CREATE, MENU_IMPROVE}
        \cup (IF state = "choosing_language" THEN {PICK_EN}
              ELSE IF state = "choosing_platform" THEN {PICK_SORA}
              ELSE {})

UsersTextsIn(state) ==
    IF state = "awaiting_description" THEN {DESC_DOG}
    ELSE IF state = "awaiting_scenes" THEN {TXT_1}
    ELSE IF state = "awaiting_duration" THEN {TXT_5}
    ELSE {}

NextUsers ==
    \E u \in TwoUsers :
        \/ \E data \in UsersDataIn(StateOf(SESSIONS, u)) :
              /\ data = MENU_IMPROVE => hist[u].improves = 0
              /\ MenuRouter(u, data)
        \/ \E text \in UsersTextsIn(StateOf(SESSIONS, u)) : MessageCollector(u, text)

SpecUsers == InitFlow /\ [][NextUsers]_vars

\* The machine of one user who walks the create flow again and again and gives
\* every answer, well-formed or not, to the questions on the scene count and
\* the duration.
CollectDataIn(state) ==
    {MENU_CREATE}
        \cup (IF state = "choosing_language" THEN {PICK_EN}
              ELSE IF state = "choosing_platform" THEN {PICK_SORA}
              ELSE {})

NextCollect ==
    \E u \in Users :
        \/ \E data \in CollectDataIn(StateOf(SESSIONS, u)) : MenuRouter(u, data)
        \/ \E text \in TextsIn(StateOf(SESSIONS, u)) : MessageCollector(u, text)

SpecCollect == InitFlow /\ [][NextCollect]_vars

\* DOG_SENTENCE_1  is the text  'A dog runs.'
DOG_SENTENCE_1 ==
    <<"A"," ","d","o","g"," ","r","u","n","s",".">>

\* DOG_SENTENCE_2  is the text  'A cat hides.'
DOG_SENTENCE_2 ==
    <<"A"," ","c","a","t"," ","h","i","d","e","s",".">>

\* DOG_SENTENCE_3  is the text  'The sun sets.'
DOG_SENTENCE_3 ==
    <<"T","h","e"," ","s","u","n"," ","s","e","t","s",".">>

\* ------------------------------------------------ the claims on the machine
\* C2: whenever a session is idle and holds prompts, it holds n_scenes of them
\* and the prompt at Python position i carries index i+1 (the position itself,
\* counted from one); a generation over an earlier list leaves n_scenes prompts
\* too, so it takes the place of the list and does not extend it.
C2_PromptListMatchesSceneCount ==
    \A u \in DOMAIN SESSIONS :
        (StateOf(SESSIONS, u) = "idle" /\ PromptsOf(SESSIONS, u) # << >>)
            => /\ "n_scenes" \in DOMAIN SESSIONS[u]
               /\ Len(PromptsOf(SESSIONS, u)) = SESSIONS[u].n_scenes
               /\ \A i \in 1..Len(PromptsOf(SESSIONS, u)) :
                      PromptsOf(SESSIONS, u)[i].index = i

\* reached: a generation of three prompts over an earlier prompt list
C2_Witness_Regenerated ==
    /\ 1 \in DOMAIN SESSIONS
    /\ hist[1].replaced
    /\ last.handler = "message_collector"
    /\ StateOf(SESSIONS, 1) = "idle"
    /\ Len(PromptsOf(SESSIONS, 1)) = 3

\* the sentences of DESC_DOG, in order
DOG_SENTENCES == <<DOG_SENTENCE_1, DOG_SENTENCE_2, DOG_SENTENCE_3>>

\* C3: the flow completed with the description "A dog runs. A cat hides. The
\* sun sets.", three scenes and a fixed duration leaves three prompts, indexed
\* 1..3 in order, each of that duration, the text of prompt i containing
\* sentence i of the description.
C3_EachPromptHoldsItsSentence ==
    \A u \in DOMAIN SESSIONS :
        (/\ StateOf(SESSIONS, u) = "idle"
         /\ PromptsOf(SESSIONS, u) # << >>
         /\ Get(SESSIONS[u], "description", << >>) = DESC_DOG
         /\ Get(SESSIONS[u], "n_scenes", 0) = Len(DOG_SENTENCES)
         /\ Get(SESSIONS[u], "duration_mode", "none") = "fixed"
         /\ hist[u].improves = 0)
            => /\ Len(PromptsOf(SESSIONS, u)) = Len(DOG_SENTENCES)
               /\ \A i \in 1..Len(PromptsOf(SESSIONS, u)) :
                      /\ PromptsOf(SESSIONS, u)[i].index = i
                      /\ PromptsOf(SESSIONS, u)[i].duration = SESSIONS[u].duration_value
                      /\ Contains(PromptsOf(SESSIONS, u)[i].prompt, DOG_SENTENCES[i])

\* the integer a text of decimal digits denotes, as the claims read a text
DECIMALS == <<"0", "1", "2", "3", "4", "5", "6", "7", "8", "9">>

RECURSIVE DecimalValue(_)
DecimalValue(digits) ==
    IF digits = << >> THEN 0
    ELSE 10 * DecimalValue(SubSeq(digits, 1, Len(digits) - 1))
             + (CHOOSE d \in 0..9 : DECIMALS[d + 1] = digits[Len(digits)])

DecimalOf(text) ==
    IF text # << >> /\ \A i \in 1..Len(text) : \E d \in 0..9 : DECIMALS[d + 1] = text[i]
    THEN DecimalValue(text)
    ELSE None

\* C4: in state awaiting_scenes a text that is no integer of 1..200 leaves the
\* whole session as it was; a text that is one stores it as n_scenes, moves
\* the session to awaiting_duration and changes no other field.
C4_SceneCountValidation ==
    [][\A u \in Users : \A text \in CountTexts :
          (StateOf(SESSIONS, u) = "awaiting_scenes" /\ MessageCollector(u, text))
              => IF DecimalOf(text) \in 1..200
                 THEN SESSIONS'[u] =
                          Put(Put(SESSIONS[u], "n_scenes", DecimalOf(text)),
                              "state", "awaiting_duration")
                 ELSE SESSIONS'[u] = SESSIONS[u]]_vars

\* reached: a scene count was refused in a session that holds one of an
\* earlier flow, and the session waits for the count still
C4_Witness_Refused ==
    /\ 1 \in DOMAIN SESSIONS
    /\ last.handler = "message_collector"
    /\ last.replies = <<"Please send a valid number between 1 and 200.">>
    /\ StateOf(SESSIONS, 1) = "awaiting_scenes"
    /\ "n_scenes" \in DOMAIN SESSIONS[1]

\* the token "var" in any letter case, as the claims read a text
AnyCaseVar(text) ==
    /\ Len(text) = 3
    /\ text[1] \in {"v", "V"} /\ text[2] \in {"a", "A"} /\ text[3] \in {"r", "R"}

\* C5: in state awaiting_duration the texts accepted are "var" in any letter
\* case and the integers of 1..3600, and an accepted text ends in a generation;
\* any other text leaves the whole session as it was (state, duration_mode,
\* duration_value, last_prompts) and generates nothing.
C5_DurationValidation ==
    [][\A u \in Users : \A text \in DurationTexts :
          (StateOf(SESSIONS, u) = "awaiting_duration" /\ MessageCollector(u, text))
              => IF AnyCaseVar(Strip(text)) \/ DecimalOf(text) \in 1..3600
                 THEN /\ StateOf(SESSIONS', u) = "idle"
                      /\ SESSIONS'[u].duration_mode =
                             (IF AnyCaseVar(Strip(text)) THEN "var" ELSE "fixed")
                      /\ SESSIONS'[u].duration_value =
                             (IF AnyCaseVar(Strip(text)) THEN None ELSE DecimalOf(text))
                 ELSE /\ SESSIONS'[u] = SESSIONS[u]
                      /\ rng' = rng
                      /\ last'.replies = <<"Send integer seconds (1-3600) or 'var'.">>]_vars

\* reached: a duration was refused in a session that holds prompts and a
\* duration of an earlier flow, and the session waits for the duration still
C5_Witness_Refused ==
    /\ 1 \in DOMAIN SESSIONS
    /\ last.handler = "message_collector"
    /\ last.replies = <<"Send integer seconds (1-3600) or 'var'.">>
    /\ StateOf(SESSIONS, 1) = "awaiting_duration"
    /\ PromptsOf(SESSIONS, 1) # << >>
    /\ "duration_value" \in DOMAIN SESSIONS[1]

\* an improve or an export action of user u: the button of the menu or the command
ImproveAction(u) == MenuRouter(u, MENU_IMPROVE) \/ CmdImprove(u)
ExportAction(u) == MenuRouter(u, MENU_EXPORT) \/ CmdExport(u)

NothingGenerated ==
    {<<"No prompts generated yet. Create first.">>, <<"No prompts to export. Create first.">>,
     <<"No prompts to improve. Create first.">>, <<"No prompts to export.">>}

\* C6: an improve or an export action, by the menu or by the command, on a
\* session that holds no prompts answers that nothing is generated, sends no
\* archive and leaves the whole session as it was.
C6_NothingGeneratedNoMutation ==
    [][\A u \in Users :
          (/\ u \in DOMAIN SESSIONS
           /\ PromptsOf(SESSIONS, u) = << >>
           /\ (ImproveAction(u) \/ ExportAction(u)))
              => /\ last'.replies \in NothingGenerated
                 /\ last'.doc = "none"
                 /\ SESSIONS' = SESSIONS]_vars

\* reached: /export was refused in the middle of a flow, the answers collected
\* so far still in the session
C6_Witness_ExportRefused ==
    /\ 1 \in DOMAIN SESSIONS
    /\ last.handler = "cmd_export"
    /\ last.replies = <<"No prompts to export.">>
    /\ StateOf(SESSIONS, 1) = "awaiting_duration"
    /\ "description" \in DOMAIN SESSIONS[1]
    /\ PromptsOf(SESSIONS, 1) = << >>

\* the annotation an improve action of the kind appends
Annotation(handler) ==
    IF handler = "menu_router" THEN IMPROVED_NOTE ELSE LOCAL_IMPROVE_NOTE

\* the text of every prompt of u has grown by the note
Appended(u, note) ==
    /\ Len(PromptsOf(SESSIONS', u)) = Len(PromptsOf(SESSIONS, u))
    /\ \A i \in 1..Len(PromptsOf(SESSIONS, u)) :
           PromptsOf(SESSIONS', u)[i].prompt = PromptsOf(SESSIONS, u)[i].prompt \o note

\* C7, as claimed: every improve action on a session with prompts, the first
\* and the one that follows it alike, appends the annotation to the text of
\* every prompt as the action before left it.
C7_EveryImproveAppends ==
    [][\A u \in Users :
          (PromptsOf(SESSIONS, u) # << >> /\ ImproveAction(u))
              => Appended(u, Annotation(last'.handler))]_vars

\* C7, amended: the menu action 'Improve Last', and /improve when no polish
\* credential is configured, append their annotation to the text of every
\* prompt as the action before left it; /improve with a credential leaves the
\* text of every prompt as it was.
C7_LocalImproveAppends ==
    [][\A u \in Users :
          (PromptsOf(SESSIONS, u) # << >> /\ ImproveAction(u))
              => IF last'.handler = "cmd_improve" /\ DEEPSEEK_API_KEY
                 THEN Appended(u, << >>)
                 ELSE Appended(u, Annotation(last'.handler))]_vars

EndsWith(s, t) == Len(s) >= Len(t) /\ SubSeq(s, Len(s) - Len(t) + 1, Len(s)) = t

\* reached: two improve actions in a row, the text of the first prompt ending
\* with two annotations
C7_Witness_TwiceAppended ==
    /\ 1 \in DOMAIN SESSIONS
    /\ hist[1].improves = 2
    /\ PromptsOf(SESSIONS, 1) # << >>
    /\ \E a, b \in {IMPROVED_NOTE, LOCAL_IMPROVE_NOTE} :
           EndsWith(PromptsOf(SESSIONS, 1)[1].prompt, a \o b)

\* the session of u alone in the dict
Alone(S, u) == [v \in DOMAIN S \cap {u} |-> S[v]]

\* what a step of user u by the handler leaves of SESSIONS when u is alone in the dict
StepAlone(u, handler) ==
    IF handler = "menu_router"
    THEN {menu_router(Alone(SESSIONS, u), u, data).S :
              data \in UsersDataIn(StateOf(SESSIONS, u))}
    ELSE {message_collector(Alone(SESSIONS, u), u, text, DEEPSEEK_API_KEY,
                            [i \in 1..MAX_SCENES |-> NoResponse], rng).S :
              text \in UsersTextsIn(StateOf(SESSIONS, u))}

\* C8: a step for user A leaves the session of every other user B as it was,
\* B's absence from the dict included, and leaves of A's session what the same
\* step leaves when A's session is the only one in the dict.
C8_SessionsIsolated ==
    [][\A a \in TwoUsers :
          last'.user = a
              => /\ \A b \in TwoUsers \ {a} :
                        /\ (b \in DOMAIN SESSIONS') = (b \in DOMAIN SESSIONS)
                        /\ b \in DOMAIN SESSIONS => SESSIONS'[b] = SESSIONS[b]
                 /\ Alone(SESSIONS', a) \in StepAlone(a, last'.handler)]_vars

\* reached: user 1 completed a generation while user 2, who holds prompts of
\* its own, was in the middle of a flow
C8_Witness_GenerationBesideFlow ==
    /\ DOMAIN SESSIONS = TwoUsers
    /\ last.handler = "message_collector"
    /\ last.user = 1
    /\ Len(last.replies) = 3
    /\ StateOf(SESSIONS, 2) = "awaiting_scenes"
    /\ PromptsOf(SESSIONS, 2) # << >>

\* ------------------------------------- checking call_deepseek_polish alone
\* what resp.json() may hold under a key: a string with text in it, a string
\* of blanks, the empty string, or a value that is no string
JsonValues ==
    {[type |-> "str", s |-> POLISHED_TEXT], [type |-> "str", s |-> BLANK_TEXT],
     [type |-> "str", s |-> << >>], [type |-> "int"]}

\* the keys of a body: two of the recognized ones and one that is not
BodyKeys == {"result", "text", "message"}

\* the bodies: no JSON at all, an object of up to two keys, a bare JSON string,
\* and a JSON value that is neither (a list, a number, null)
Bodies ==
    {[kind |-> "invalid"], [kind |-> "other"]}
        \cup {[kind |-> "str", s |-> s] : s \in {POLISHED_TEXT, << >>}}
        \cup {[kind |-> "dict", items |-> items] :
                  items \in UNION {[ks -> JsonValues] :
                                       ks \in {k \in SUBSET BodyKeys : Cardinality(k) <= 2}}}

Statuses == {HTTP_OK, 201, 404, 500}

Responses ==
    {NoResponse}
        \cup {[transport |-> "ok", status |-> st, body |-> b] : st \in Statuses, b \in Bodies}

InitPolish ==
    /\ SESSIONS = EmptyMap
    /\ DEEPSEEK_API_KEY \in BOOLEAN
    /\ rng = 0
    /\ last = NoUpdate
    /\ hist = EmptyMap
    /\ tasks = {}
    /\ batch = NoBatch
    /\ call = NoCall

CallPolish ==
    /\ call = NoCall
    /\ \E text \in {TXT_ABC, POLISHED_TEXT}, resp \in Responses :
         call' = [fn |-> "call_deepseek_polish", text |-> text, resp |-> resp,
                  result |-> call_deepseek_polish(text, DEEPSEEK_API_KEY, resp)]
    /\ UNCHANGED <<SESSIONS, DEEPSEEK_API_KEY, rng, last, hist, tasks, batch>>

NextPolish == CallPolish

SpecPolish == InitPolish /\ [][NextPolish]_vars

\* a success status, as the claims read a status
Success(status) == status \in 200..299

\* the body carries a non-empty string under a recognized key
Carries(body) ==
    /\ body.kind = "dict"
    /\ \E k \in {"result", "output", "polished", "text"} :
           /\ k \in DOMAIN body.items
           /\ body.items[k].type = "str"
           /\ body.items[k].s # << >>

\* the answer of the service gives no polished text
NoPolish(key, resp) ==
    \/ ~key
    \/ resp.transport # "ok"
    \/ ~Success(resp.status)
    \/ ~Carries(resp.body)

\* C10, as claimed: the call never raises, and it returns its input when no
\* credential is configured, when the transport fails, when the status is no
\* success and when the body of a success carries no non-empty string under a
\* recognized key.
C10_InputUnlessRecognizedKey ==
    call.fn = "call_deepseek_polish"
        => /\ ~call.result.raised
           /\ NoPolish(DEEPSEEK_API_KEY, call.resp) => call.result.value = call.text

\* C10, amended: the same, but for a body that is itself a JSON string: under
\* status 200 that string is what the call returns, empty or not.
C10_InputUnlessKeyOrStringBody ==
    call.fn = "call_deepseek_polish"
        => /\ ~call.result.raised
           /\ (/\ DEEPSEEK_API_KEY
               /\ call.resp.transport = "ok"
               /\ call.resp.status = 200
               /\ call.resp.body.kind = "str")
                  => call.result.value = call.resp.body.s
           /\ (/\ NoPolish(DEEPSEEK_API_KEY, call.resp)
               /\ ~(/\ DEEPSEEK_API_KEY
                    /\ call.resp.transport = "ok"
                    /\ call.resp.status = 200
                    /\ call.resp.body.kind = "str"))
                  => call.result.value = call.text

\* reached: with a credential, a status 200 whose object holds a blank string
\* under "result" and a string under a key that is not recognized, and the
\* input comes back
C10_Witness_NoRecognizedText ==
    /\ call.fn = "call_deepseek_polish"
    /\ DEEPSEEK_API_KEY
    /\ call.resp.transport = "ok"
    /\ call.resp.status = 200
    /\ call.resp.body.kind = "dict"
    /\ DOMAIN call.resp.body.items = {"result", "message"}
    /\ call.resp.body.items["result"] = [type |-> "str", s |-> << >>]
    /\ call.resp.body.items["message"] = [type |-> "str", s |-> POLISHED_TEXT]
    /\ call.result.value = call.text

\* ------------------------------------------- updates delivered concurrently
\* Updates of one user arrive together: a delivery holds up to MaxInFlight of
\* them.  A handler runs from an await to the next in one step; a handler that
\* mutates the session after an await is a task suspended there until it is
\* resumed.
Callback(data) == [kind |-> "callback", data |-> data]
Text(text) == [kind |-> "text", text |-> text]

\* the updates of a delivery to a session in the state: the create button at
\* any time, with it the buttons and the texts that the state and the states
\* that follow it ask for; the text "1" answers every question of the flow
ConcUpdatesIn(state) ==
    {Callback(MENU_CREATE)}
        \cup (IF state \in {"idle", "choosing_language"}
              THEN {Callback(PICK_EN), Callback(PICK_SORA)}
              ELSE IF state = "choosing_platform" THEN {Callback(PICK_SORA), Text(TXT_1)}
              ELSE {Text(TXT_1)})

Deliveries(state) == UNION {[1..k -> ConcUpdatesIn(state)] : k \in 1..MaxInFlight}

\* the answers of the polish service to a generation for the session
FlowAnswers(S, u) == [i \in 1..Get(S[u], "n_scenes", DEFAULT_N_SCENES) |-> NoResponse]

\* the draws a generation for the session takes
FlowDraws(S, u) ==
    Get(S[u], "n_scenes", DEFAULT_N_SCENES) * SceneDraws(Get(S[u], "duration_mode", "fixed"))

\* a variant of CanStart: an update is handled while a handler is suspended
CanStart_Concurrent(suspended) == TRUE

\* app = ApplicationBuilder().token(token).build(): concurrent_updates is not
\* set, so the application awaits the handler of an update to its end before it
\* takes the next update
CanStart(suspended) == suspended = {}

\* the handler of an update up to its first await that a mutation follows
FirstPart(S, u, up) ==
    IF up.kind = "callback" THEN menu_route(S, u, up.data) ELSE collect_first(S, u, up.text)

\* the updates have arrived
Deliver(ups) ==
    /\ tasks = {}
    /\ batch.open => batch.waiting = {}
    /\ batch' = [open |-> TRUE, base |-> SESSIONS, rng0 |-> rng, updates |-> ups,
                 waiting |-> DOMAIN ups, gens |-> 0]
    /\ UNCHANGED <<SESSIONS, DEEPSEEK_API_KEY, rng, last, hist, tasks, call>>

\* the application starts the handler of update i of the delivery
Start(u, i) ==
    /\ batch.open
    /\ i \in batch.waiting
    /\ CanStart(tasks)
    /\ LET up == batch.updates[i]
           a == FirstPart(SESSIONS, u, up)
       IN  /\ Handled(IF up.kind = "callback" THEN "menu_router" ELSE "message_collector",
                      u, a)
           /\ tasks' = IF a.next = "done" THEN tasks
                       ELSE tasks \cup {[id |-> i, user |-> u, next |-> a.next]}
    /\ batch' = [batch EXCEPT !.waiting = @ \ {i}]
    /\ UNCHANGED <<DEEPSEEK_API_KEY, rng, hist, call>>

\* the await of a suspended handler returns and the handler runs to its end
Resume(t) ==
    /\ t \in tasks
    /\ tasks' = tasks \ {t}
    /\ IF t.next = "collect_generate"
       THEN /\ Handled("message_collector", t.user,
                       collect_generate(SESSIONS, t.user, DEEPSEEK_API_KEY,
                                        FlowAnswers(SESSIONS, t.user), rng))
            /\ rng' = AfterDraws(rng, FlowDraws(SESSIONS, t.user))
            /\ batch' = [batch EXCEPT !.gens = @ + 1]
       ELSE /\ Handled("menu_router", t.user, menu_create_finish(SESSIONS, t.user))
            /\ UNCHANGED <<rng, batch>>
    /\ UNCHANGED <<DEEPSEEK_API_KEY, hist, call>>

NextConc ==
    \/ \E ups \in Deliveries(StateOf(SESSIONS, 1)) : Deliver(ups)
    \/ \E i \in 1..MaxInFlight : Start(1, i)
    \/ \E t \in tasks : Resume(t)

SpecConc == InitFlow /\ [][NextConc]_vars

\* the handler of an update run from its start to its end with nothing between
Atomic(S, u, up, r) ==
    IF up.kind = "callback"
    THEN [S |-> menu_router(S, u, up.data).S, rng |-> r, gens |-> 0]
    ELSE LET a == collect_first(S, u, up.text)
         IN  IF a.next = "collect_generate"
             THEN [S |-> message_collector(S, u, up.text, FALSE, FlowAnswers(a.S, u), r).S,
                   rng |-> AfterDraws(r, FlowDraws(a.S, u)), gens |-> 1]
             ELSE [S |-> a.S, rng |-> r, gens |-> 0]

RECURSIVE SequentialOutcomes(_, _, _, _, _)
\* what the updates left of ups leave, handled one after the other in any order
SequentialOutcomes(S, r, gens, ups, left) ==
    IF left = {} THEN {[S |-> S, gens |-> gens]}
    ELSE UNION {LET o == Atomic(S, 1, ups[i], r)
                IN  SequentialOutcomes(o.S, o.rng, gens + o.gens, ups, left \ {i}) :
                    i \in left}

\* every update of the delivery is handled to its end
Quiescent == batch.open /\ batch.waiting = {} /\ tasks = {}

TokKill ==
    <<"k","i","l","l">>

\* TokShoot  is the text  'shoot'
TokShoot ==
    <<"s","h","o","o","t">>

\* TokUbit  is the text  '\u0443\u0431\u0438\u0442\u044c'
TokUbit ==
    <<"U+0443","U+0431","U+0438","U+0442","U+044C">>

\* TokLights  is the text  ' the lights'
TokLights ==
    <<" ","t","h","e"," ","l","i","g","h","t","s">>

\* TokSho  is the text  'sho'
TokSho ==
    <<"s","h","o">>


\* ----------------------------------------------- applying mini_ai_enhance alone
\* the fragments: up to MaxTokens tokens, among them terms of the denylist and
\* pieces that make one up when they meet
EnhanceTokens == {TokKill, TokShoot, TokUbit, TokLights, TokSho}

Fragments ==
    {Concat(ts) : ts \in UNION {[1..k -> EnhanceTokens] : k \in 0..MaxTokens}}

InitEnhance ==
    /\ SESSIONS = EmptyMap
    /\ DEEPSEEK_API_KEY = FALSE
    /\ rng \in 0..(RngMod - 1)
    /\ last = NoUpdate
    /\ hist = EmptyMap
    /\ tasks = {}
    /\ batch = NoBatch
    /\ call = NoCall

CallEnhance ==
    /\ call = NoCall
    /\ \E s \in Fragments :
         call' = [fn |-> "mini_ai_enhance", scene_short |-> s,
                  result |-> mini_ai_enhance(s, rng)]
    /\ rng' = AfterDraws(rng, ENHANCE_DRAWS)
    /\ UNCHANGED <<SESSIONS, DEEPSEEK_API_KEY, last, hist, tasks, batch>>

NextEnhance == CallEnhance

SpecEnhance == InitEnhance /\ [][NextEnhance]_vars

\* the text holds a term of the denylist
Denylisted(text) == \E k \in 1..Len(DENYLIST) : Contains(text, DENYLIST[k])

\* C11: whatever the fragment, a fragment that holds a term of the denylist
\* included, no text field of the metadata mini_ai_enhance returns holds a term
\* of the denylist, the title and the brief included, and neither does the
\* prompt text rendered from the metadata.
C11_NoDenylistedText ==
    call.fn = "mini_ai_enhance"
        => /\ \A f \in DOMAIN call.result : ~Denylisted(call.result[f])
           /\ ~Denylisted(Render(call.result, DEFAULT_DURATION))

\* ------------------------------------------ the order of the fragments
\* a text without the characters that the joins of split_into_scenes add and
\* its strips remove: blanks and commas
Squeeze(s) == SelectSeq(s, LAMBDA c : c \notin Whitespace \cup {","})

RECURSIVE EmbedsFrom(_, _, _, _)
\* the characters of a from place i on are found in b from place j on, in order
EmbedsFrom(a, i, b, j) ==
    IF i > Len(a) THEN TRUE
    ELSE LET hits == {k \in j..Len(b) : b[k] = a[i]}
         IN  hits # {} /\ EmbedsFrom(a, i + 1, b, Least(hits) + 1)

IsFiller(fragment) == fragment \in {FILLER_CONTINUING, FILLER_BRIDGING}

\* the fragments that carry content of the description
ContentOf(fragments) == SelectSeq(fragments, LAMBDA f : ~IsFiller(f))

\* C12: for a description that is not blank the fragments keep the order of
\* the description: the content of the fragments, read fragment after
\* fragment, is found in the description from left to right, so no fragment
\* holds content that lies behind the content of the fragment after it; and
\* once a filler occurs only fillers follow.
C12_OrderPreserved ==
    (call.fn = "split_into_scenes" /\ Strip(call.desc) # << >>)
        => /\ EmbedsFrom(Squeeze(Concat(ContentOf(call.result))), 1, Squeeze(call.desc), 1)
           /\ \A i \in 1..(Len(call.result) - 1) :
                  IsFiller(call.result[i]) => IsFiller(call.result[i + 1])

\* reached: the description cut into two chunks, in their order, and a filler
\* behind them
C12_Witness_ChunksThenFiller ==
    /\ call.fn = "split_into_scenes"
    /\ call.n = 3
    /\ SplitBranch(call.desc, call.n) = "chunks"
    /\ ~IsFiller(call.result[1]) /\ call.result[1] # << >>
    /\ ~IsFiller(call.result[2]) /\ call.result[2] # << >>
    /\ call.result[1] # call.result[2]
    /\ IsFiller(call.result[3])

\* ------------------------------------------------------ the keyboards
\* PLATFORMS, the names of the platform keyboard
PLATFORMS ==
    <<<<"C","h","a","t","G","P","T">>,
      <<"G","e","m","i","n","i">>,
      <<"L","l","a","m","a"," ","3">>,
      <<"V","e","o"," ","3">>,
      <<"V","e","o"," ","3",".","1">>,
      <<"S","o","r","a">>,
      <<"D","e","e","p","s","e","e","k">>,
      <<"M","i","d","j","o","u","r","n","e","y">>,
      <<"S","t","a","b","l","e"," ","D","i","f","f","u","s","i","o","n">>,
      <<"D","A","L","L","U+00B7","E">>,
      <<"R","u","n","w","a","y">>,
      <<"I","m","a","g","e","n">>,
      <<"C","l","a","u","d","e">>,
      <<"P","e","r","p","l","e","x","i","t","y">>,
      <<"B","l","u","e","W","i","l","l","o","w">>,
      <<"D","r","e","a","m","S","t","u","d","i","o">>,
      <<"I","n","v","o","k","e","A","I">>,
      <<"C","o","n","t","r","o","l","N","e","t">>,
      <<"D","e","f","o","r","u","m">>,
      <<"C","u","s","t","o","m","M","o","d","e","l">>,
      <<"M","i","s","t","r","a","l">>,
      <<"F","a","l","c","o","n">>,
      <<"A","n","t","h","r","o","p","i","c">>,
      <<"O","p","e","n","J","o","u","r","n","e","y">>,
      <<"E","r","n","i","e","-","V","i","L","G">>,
      <<"G","L","I","D","E">>,
      <<"K","a","n","d","i","n","s","k","y">>,
      <<"P","i","k","a">>,
      <<"P","o","e">>,
      <<"G","r","o","k">>>>

\* LANGUAGES, code and name of each language, in the order of the dict
LANGUAGES ==
    <<[k |-> <<"r","u">>, v |-> <<"U+0420","U+0443","U+0441","U+0441","U+043A","U+0438","U+0439">>],
      [k |-> <<"e","n">>, v |-> <<"E","n","g","l","i","s","h">>],
      [k |-> <<"e","s">>, v |-> <<"E","s","p","a","U+00F1","o","l">>],
      [k |-> <<"f","r">>, v |-> <<"F","r","a","n","U+00E7","a","i","s">>],
      [k |-> <<"d","e">>, v |-> <<"D","e","u","t","s","c","h">>],
      [k |-> <<"i","t">>, v |-> <<"I","t","a","l","i","a","n","o">>],
      [k |-> <<"p","t">>, v |-> <<"P","o","r","t","u","g","u","U+00EA","s">>],
      [k |-> <<"n","l">>, v |-> <<"N","e","d","e","r","l","a","n","d","s">>],
      [k |-> <<"p","l">>, v |-> <<"P","o","l","s","k","i">>],
      [k |-> <<"s","v">>, v |-> <<"S","v","e","n","s","k","a">>],
      [k |-> <<"n","o">>, v |-> <<"N","o","r","s","k">>],
      [k |-> <<"d","a">>, v |-> <<"D","a","n","s","k">>],
      [k |-> <<"f","i">>, v |-> <<"S","u","o","m","i">>],
      [k |-> <<"c","s">>, v |-> <<"U+010C","e","U+0161","t","i","n","a">>],
      [k |-> <<"h","u">>, v |-> <<"M","a","g","y","a","r">>],
      [k |-> <<"r","o">>, v |-> <<"R","o","m","U+00E2","n","U+0103">>],
      [k |-> <<"t","r">>, v |-> <<"T","U+00FC","r","k","U+00E7","e">>],
      [k |-> <<"j","a">>, v |-> <<"U+65E5","U+672C","U+8A9E">>],
      [k |-> <<"k","o">>, v |-> <<"U+D55C","U+AD6D","U+C5B4">>],
      [k |-> <<"z","h">>, v |-> <<"U+4E2D","U+6587">>]>>

\* keyboard_from_list: the callback data of the buttons, pick| and the item
keyboard_from_list(items) == {PICK_PREFIX \o items[i] : i \in DOMAIN items}

\* the keyboard of menu_create, one button  code - name  for each language
LanguageKeyboard ==
    keyboard_from_list([i \in DOMAIN LANGUAGES |-> LANGUAGES[i].k \o LANG_SEP \o LANGUAGES[i].v])

\* the keyboard shown once the language is picked
PlatformKeyboard == keyboard_from_list(PLATFORMS)

\* ------------------------------------------- inputs of the wrong shape
\* The machine of one user whose earlier keyboards stay on the screen: the
\* user starts flows, presses a language button whenever a language keyboard
\* has been shown and a platform button whenever a platform keyboard has been
\* shown, whatever the bot asks for now, and sends texts, also when the bot
\* asks for a button.
LanguageShown(S, u) == u \in DOMAIN S /\ (StateOf(S, u) # "idle" \/ "language" \in DOMAIN S[u])
PlatformShown(S, u) == u \in DOMAIN S /\ "language" \in DOMAIN S[u]

ShapeDataIn(S, u) ==
    {MENU_CREATE}
        \cup (IF LanguageShown(S, u) THEN {PICK_EN} \cap LanguageKeyboard ELSE {})
        \cup (IF PlatformShown(S, u) THEN {PICK_SORA} \cap PlatformKeyboard ELSE {})

NextShape ==
    \E u \in Users :
        \/ \E data \in ShapeDataIn(SESSIONS, u) : MenuRouter(u, data)
        \/ \E text \in FlowTextsIn(StateOf(SESSIONS, u)) : MessageCollector(u, text)

SpecShape == InitFlow /\ [][NextShape]_vars

Choosing == {"choosing_language", "choosing_platform"}
NotChoosing == {"awaiting_description", "awaiting_scenes", "awaiting_duration", "idle"}
Picks == {PICK_EN, PICK_SORA}

\* C13: an input of the wrong shape leaves the session as it is: a text
\* handled by message_collector while the session is choosing the language or
\* the platform, and a pick handled by menu_router while the session awaits
\* the description, the scene count or the duration or is idle, change neither
\* the state nor any collected field nor the prompt list of the session.
C13_WrongShapeLeavesSession ==
    [][\A u \in Users :
          /\ \A text \in OtherTexts :
                (StateOf(SESSIONS, u) \in Choosing /\ MessageCollector(u, text))
                    => (u \in DOMAIN SESSIONS /\ SESSIONS'[u] = SESSIONS[u])
          /\ \A data \in Picks :
                (u \in DOMAIN SESSIONS /\ StateOf(SESSIONS, u) \in NotChoosing
                    /\ MenuRouter(u, data))
                    => SESSIONS'[u] = SESSIONS[u]]_vars

\* reached: a platform button of an earlier keyboard pressed while the bot
\* waits for the duration, answered as unhandled, the flow still waiting
C13_Witness_PickWhileAwaiting ==
    /\ last.handler = "menu_router"
    /\ last.replies = <<"Unhandled menu action. Back to main menu.">>
    /\ StateOf(SESSIONS, 1) = "awaiting_duration"
    /\ Get(SESSIONS[1], "n_scenes", None) = 3

SupportedCodes == {LANGUAGES[i].k : i \in DOMAIN LANGUAGES}
SupportedPlatforms == {PLATFORMS[i] : i \in DOMAIN PLATFORMS}

\* C14: after any updates, the buttons of keyboards shown earlier included,
\* the language of a session, when set, is a code of LANGUAGES and its
\* platform, when set, is a name of PLATFORMS.
C14_LanguageAndPlatformSupported ==
    \A u \in DOMAIN SESSIONS :
        /\ "language" \in DOMAIN SESSIONS[u] => SESSIONS[u].language \in SupportedCodes
        /\ "platform" \in DOMAIN SESSIONS[u] => SESSIONS[u].platform \in SupportedPlatforms

\* ------------------------------------------------- the handlers of main
Command(name) == [kind |-> "command", name |-> name]

\* cmd_settings: a text is sent, no session is read or made
cmd_settings(S, user_id) == Done(S, <<"Settings & Tips:">>)

\* the handlers in the order of the calls of app.add_handler in main; no call
\* names a group, so all of them are in the default group
HANDLERS ==
    <<[type |-> "CallbackQueryHandler", command |-> "", callback |-> "menu_router"],
      [type |-> "CommandHandler", command |-> "menu", callback |-> "lambda"],
      [type |-> "CommandHandler", command |-> "improve", callback |-> "cmd_improve"],
      [type |-> "CommandHandler", command |-> "export", callback |-> "cmd_export"],
      [type |-> "CommandHandler", command |-> "settings", callback |-> "cmd_settings"],
      [type |-> "MessageHandler", command |-> "", callback |-> "any_message"],
      [type |-> "MessageHandler", command |-> "", callback |-> "message_collector"]>>

\* whether the handler takes the update: a callback query handler without a
\* pattern any callback query, a command handler its command, a message
\* handler with filters.TEXT & ~filters.COMMAND any text that is no command
check_update(handler, up) ==
    IF handler.type = "CallbackQueryHandler" THEN up.kind = "callback"
    ELSE IF handler.type = "CommandHandler"
    THEN up.kind = "command" /\ up.name = handler.command
    ELSE up.kind = "text"

\* the callback the application runs for the update: within a group the first
\* handler that takes the update handles it and the handlers after it are
\* passed over
Dispatched(up) ==
    LET hits == {i \in DOMAIN HANDLERS : check_update(HANDLERS[i], up)}
    IN  IF hits = {} THEN "none" ELSE HANDLERS[Least(hits)].callback

CmdSettings(u) ==
    /\ Handled("cmd_settings", u, cmd_settings(SESSIONS, u))
    /\ UNCHANGED <<DEEPSEEK_API_KEY, rng, hist, tasks, batch, call>>

\* the lambda of /menu sends the main menu
CmdMenu(u) ==
    /\ Handled("lambda", u, Done(SESSIONS, <<"Main Menu:">>))
    /\ UNCHANGED <<DEEPSEEK_API_KEY, rng, hist, tasks, batch, call>>

\* the application takes an update of the user and runs its callback
ProcessUpdate(u, up) ==
    LET callback == Dispatched(up)
    IN  IF callback = "menu_router" THEN MenuRouter(u, up.data)
        ELSE IF callback = "lambda" THEN CmdMenu(u)
        ELSE IF callback = "cmd_improve" THEN CmdImprove(u)
        ELSE IF callback = "cmd_export" THEN CmdExport(u)
        ELSE IF callback = "cmd_settings" THEN CmdSettings(u)
        ELSE IF callback = "any_message" THEN AnyMessage(u, up.text)
        ELSE IF callback = "message_collector" THEN MessageCollector(u, up.text)
        ELSE UNCHANGED vars

\* The running bot, one user: the buttons of the menus and of the keyboards
\* shown so far, the commands, and the texts that answer the question asked.
Commands == {"menu", "improve", "export", "settings"}

MainUpdatesIn(S, u) ==
    {Callback(data) : data \in MenuButtons \cup ShapeDataIn(S, u)}
        \cup {Command(name) : name \in Commands}
        \cup {Text(text) : text \in FlowTextsIn(StateOf(S, u))}

NextMain == \E u \in Users : \E up \in MainUpdatesIn(SESSIONS, u) : ProcessUpdate(u, up)

SpecMain == Init /\ [][NextMain]_vars

Awaiting == {"awaiting_description", "awaiting_scenes", "awaiting_duration"}

\* C15: under the handlers registered in main, a text that is no command, sent
\* while the session awaits the description, the scene count or the duration,
\* is handled by message_collector: the description is stored and the scene
\* count is asked for, and so on to the generation.
C15_TextReachesCollector ==
    [][\A u \in Users : \A text \in DescTexts \cup CountTexts \cup DurationTexts :
          (StateOf(SESSIONS, u) \in Awaiting /\ ProcessUpdate(u, Text(text)))
              => /\ last'.handler = "message_collector"
                 /\ StateOf(SESSIONS, u) = "awaiting_description"
                        => /\ StateOf(SESSIONS', u) = "awaiting_scenes"
                           /\ Get(SESSIONS'[u], "description", None) = Strip(text)]_vars

\* the units of the bucket branch taken for the description, and their separator
UnitsOf(desc0, n_scenes) ==
    IF SplitBranch(desc0, n_scenes) = "sentences" THEN SplitSentences(Strip(desc0))
    ELSE SplitClauses(Strip(desc0))

JoinOf(desc0, n_scenes) ==
    IF SplitBranch(desc0, n_scenes) = "sentences" THEN SENT_JOIN ELSE CLAUSE_JOIN

\* C16: when the description has at least n_scenes sentence units, or else at
\* least n_scenes clauses, the fragments are n_scenes buckets of
\* floor(count/n_scenes) consecutive units each, the last bucket taking the
\* remainder as well: every unit is in exactly one fragment and none is dropped.
C16_BucketsHoldEveryUnit ==
    (call.fn = "split_into_scenes"
        /\ SplitBranch(call.desc, call.n) \in {"sentences", "clauses"})
        => LET units == UnitsOf(call.desc, call.n)
               sep == JoinOf(call.desc, call.n)
               per == Len(units) \div call.n
           IN  /\ Len(call.result) = call.n
               /\ \A k \in 1..(call.n - 1) :
                      call.result[k] = Strip(Join(SubSeq(units, (k - 1) * per + 1, k * per), sep))
               /\ call.result[call.n] =
                      Strip(Join(SubSeq(units, (call.n - 1) * per + 1, Len(units)), sep))

\* n_scenes is larger than the number of sentence units and of clause units of
\* the description, which is not blank
FewUnits(desc0, n_scenes) ==
    /\ Strip(desc0) # << >>
    /\ n_scenes > Len(SplitSentences(Strip(desc0)))
    /\ n_scenes > Len(SplitClauses(Strip(desc0)))

HasFiller(fragments) == \E i \in 1..Len(fragments) : IsFiller(fragments[i])

\* the number of chunks of max(30, floor(len/n_scenes)) characters of the description
ChunkCount(desc0, n_scenes) ==
    LET len == Len(Strip(desc0))
        chunk == IF len \div n_scenes > MIN_CHUNK THEN len \div n_scenes ELSE MIN_CHUNK
    IN  (len + chunk - 1) \div chunk

\* C17: whenever n_scenes is larger than the number of sentence units and of
\* clause units of a description that is not blank, the fragments returned
\* hold at least one filler.
C17_FewUnitsGiveFiller ==
    (call.fn = "split_into_scenes" /\ FewUnits(call.desc, call.n))
        => HasFiller(call.result)

\* C17, amended: whenever n_scenes is larger than the number of sentence units
\* and of clause units of a description that is not blank, the fragments hold
\* a filler exactly when the description has fewer than n_scenes chunks of
\* max(30, floor(len/n_scenes)) characters; a description of n_scenes chunks or
\* more is returned as its first n_scenes chunks, without a filler.
C17_FillerIffFewChunks ==
    (call.fn = "split_into_scenes" /\ FewUnits(call.desc, call.n))
        => /\ HasFiller(call.result) <=> ChunkCount(call.desc, call.n) < call.n
           /\ \A i \in 1..Len(call.result) :
                  i > ChunkCount(call.desc, call.n) => call.result[i] = FILLER_BRIDGING

\* reached: a description of one unit cut into the two chunks asked for, none
\* of them a filler
C17_Witness_ChunksWithoutFiller ==
    /\ call.fn = "split_into_scenes"
    /\ call.n = 2
    /\ FewUnits(call.desc, call.n)
    /\ ChunkCount(call.desc, call.n) >= 2
    /\ ~HasFiller(call.result)

\* an improve action that appends its annotation locally: the menu action,
\* and /improve without a polish credential
LocalImproveAction(u) ==
    \/ MenuRouter(u, MENU_IMPROVE)
    \/ (~DEEPSEEK_API_KEY /\ CmdImprove(u))

\* C18: every improve action that appends its annotation locally, the menu
\* action 'Improve Last' and /improve without a polish credential, also sets
\* improved to true in the metadata of every prompt and changes nothing else:
\* the number of prompts, their indices, durations and platform stay.
C18_LocalImproveMarksEveryPrompt ==
    [][\A u \in Users :
          (PromptsOf(SESSIONS, u) # << >> /\ LocalImproveAction(u))
              => /\ Len(PromptsOf(SESSIONS', u)) = Len(PromptsOf(SESSIONS, u))
                 /\ \A i \in 1..Len(PromptsOf(SESSIONS, u)) :
                      LET before == PromptsOf(SESSIONS, u)[i]
                          after == PromptsOf(SESSIONS', u)[i]
                      IN  /\ Get(after.meta, "improved", FALSE) = TRUE
                          /\ after.index = before.index
                          /\ after.duration = before.duration
                          /\ after.platform = before.platform]_vars

\* C19: every generated prompt has an integer duration in [1,3600]; when the
\* duration mode of the session is fixed, its duration_value is set and
\* positive and the duration of every prompt of the generation equals it.
C19_DurationsInRange ==
    \A u \in DOMAIN SESSIONS :
        LET session == SESSIONS[u]
            prompts == PromptsOf(SESSIONS, u)
        IN  /\ \A i \in 1..Len(prompts) :
                   prompts[i].duration \in Int /\ prompts[i].duration \in 1..3600
            /\ Get(session, "duration_mode", "unset") = "fixed"
                   => /\ "duration_value" \in DOMAIN session
                      /\ session.duration_value # None
                      /\ session.duration_value > 0
                      /\ \A i \in 1..Len(prompts) :
                             prompts[i].duration = session.duration_value

\* reached: three prompts of the largest fixed duration, the session having
\* held prompts of variable durations before
C19_Witness_LongestFixed ==
    /\ 1 \in DOMAIN SESSIONS
    /\ last.handler = "message_collector"
    /\ hist[1].replaced
    /\ Get(SESSIONS[1], "duration_mode", "unset") = "fixed"
    /\ Get(SESSIONS[1], "duration_value", None) = 3600
    /\ Len(PromptsOf(SESSIONS, 1)) = 3
    /\ \A i \in 1..3 : PromptsOf(SESSIONS, 1)[i].duration = 3600

\* the steps of the create flow, in their order, each with the handler that
\* takes it and the field its answer is stored in
FlowSteps ==
    {[from |-> "choosing_language", to |-> "choosing_platform",
      handler |-> "menu_router", field |-> "language"],
     [from |-> "choosing_platform", to |-> "awaiting_description",
      handler |-> "menu_router", field |-> "platform"],
     [from |-> "awaiting_description", to |-> "awaiting_scenes",
      handler |-> "message_collector", field |-> "description"],
     [from |-> "awaiting_scenes", to |-> "awaiting_duration",
      handler |-> "message_collector", field |-> "n_scenes"],
     [from |-> "awaiting_duration", to |-> "idle",
      handler |-> "message_collector", field |-> "duration_mode"]}

\* the handler of the step has called generate_prompts_for_session
Generating == \E i \in 1..Len(last'.replies) : last'.replies[i] = "Generating prompts..."

GenerationFields ==
    {"language", "platform", "description", "n_scenes", "duration_mode", "duration_value"}

\* C20: the state of a session changes only by a restart of the flow, to
\* choosing_language, or by the next step of the flow in its order, taken by
\* the handler of that step with the answer stored; generation runs only as
\* the last step, from awaiting_duration, with language, platform,
\* description, scene count and duration mode all set in the session, and its
\* prompts are as many as the scene count stored and carry the platform
\* stored, not the defaults.
C20_GenerationAfterOrderedAnswers ==
    [][\A u \in Users :
          LET from == StateOf(SESSIONS, u)
              to == StateOf(SESSIONS', u)
          IN  /\ from # to
                   => \/ to = "choosing_language" /\ last'.handler = "menu_router"
                      \/ \E step \in FlowSteps :
                            /\ step.from = from /\ step.to = to
                            /\ last'.handler = step.handler
                            /\ step.field \in DOMAIN SESSIONS'[u]
                            /\ \A before \in FlowSteps :
                                  before.to = from => before.field \in DOMAIN SESSIONS[u]
              /\ Generating
                   => /\ from = "awaiting_duration" /\ to = "idle"
                      /\ GenerationFields \subseteq DOMAIN SESSIONS'[u]
                      /\ SESSIONS'[u].n_scenes \in MIN_SCENES..MAX_SCENES
                      /\ Len(PromptsOf(SESSIONS', u)) = SESSIONS'[u].n_scenes
                      /\ \A i \in 1..Len(PromptsOf(SESSIONS', u)) :
                            PromptsOf(SESSIONS', u)[i].platform = SESSIONS'[u].platform]_vars

\* reached: the first generation of a session whose flow was started again
\* mid-way: its language was picked from the platform keyboard of the flow
\* given up
C20_Witness_GeneratedAfterRestart ==
    /\ 1 \in DOMAIN SESSIONS
    /\ last.handler = "message_collector"
    /\ StateOf(SESSIONS, 1) = "idle"
    /\ ~hist[1].replaced
    /\ Len(PromptsOf(SESSIONS, 1)) = 3
    /\ Get(SESSIONS[1], "language", None) = <<"S", "o", "r", "a">>

====
